---------------------------- MODULE Spec2Model ----------------------------
(***************************************************************************)
(* Model Scout streaming core: extraction task (workers.py                 *)
(* MinoWorker.snipe_benchmark), task pool dispatcher (workers.py           *)
(* parallel_snipe / parallel_compare), streaming aggregator and admission  *)
(* gate (app.py sse_stream_with_keepalive, sse_semaphore).                 *)
(***************************************************************************)
EXTENDS Integers, Sequences, FiniteSets, TLC

(***************************************************************************)
(* Bounds                                                                  *)
(***************************************************************************)
\* longest sequence of complete agent messages one extraction receives
MaxMsgs == 2

(***************************************************************************)
(* Extraction task: MinoWorker.snipe_benchmark                             *)
(***************************************************************************)
\* "type" values of the agent's SSE messages that the task's branches tell apart
AgentTypes == {"COMPLETE", "PROGRESS", "RESULT"}

\* what the message carries under resultJson / result / data:
\*   scored   - a dict whose normalisation has an average_score
\*   unscored - a dict whose normalisation has no average_score (N/A, not found)
\*   absent   - nothing, or not a dict
Payloads == {"scored", "unscored", "absent"}

\* one parsed agent message (the dict _parse_sse_event returns)
\* (completed: its "status" is "COMPLETED", as on every COMPLETE message; the
\* payload of a plain PROGRESS message is never looked at)
AgentMsgs ==
  { m \in [type : AgentTypes, completed : BOOLEAN, payload : Payloads] :
      /\ m.type = "COMPLETE" => m.completed
      /\ (m.type = "PROGRESS" /\ ~ m.completed) => m.payload = "absent" }

NoMsg == [type |-> "NONE", completed |-> FALSE, payload |-> "absent"]

\* str.lower() on the message types
Lower(t) ==
  CASE t = "COMPLETE" -> "complete"
    [] t = "PROGRESS" -> "progress"
    [] t = "RESULT"   -> "result"
    [] OTHER          -> ""

\* an event dict: source, type, status and what "data" holds
\*   none - no data key; norm - output of _normalize_mino_response;
\*   raw  - the agent's payload as received; cached - a row of the cache
\* model is the "model" key parallel_compare adds (NoModel: no such key)
NoModel == ""

Event(src, type, status, data) ==
  [source |-> src, type |-> type, status |-> status, data |-> data,
   model |-> NoModel]

\* `event_type == "COMPLETE" or parsed.get("status") == "COMPLETED"`
IsCompletion(m) == m.type = "COMPLETE" \/ m.completed

\* body of the `while "\n\n" in buffer` loop for one message:
\* the events it yields
MsgEvents(src, m) ==
  IF IsCompletion(m)
    THEN IF m.payload = "absent" THEN << >>
         ELSE IF m.payload = "scored"
           THEN << Event(src, "result", "completed", "norm") >>
           ELSE << Event(src, "warning", "completed", "none") >>
    ELSE << Event(src, Lower(m.type), "running", "raw") >>

\* ... and the value of final_result after it ("none" while unset)
MsgFinal(m, final) ==
  IF IsCompletion(m)
    THEN IF m.payload = "scored" THEN "norm" ELSE final
    ELSE IF Lower(m.type) \in {"result", "data"} THEN "raw" ELSE final

\* "Process any remaining buffer": a last message without terminator
TailEvents(src, m) ==
  IF m = NoMsg THEN << >>
  ELSE IF IsCompletion(m)
    THEN IF m.payload = "scored"
           THEN << Event(src, "result", "completed", "norm") >> ELSE << >>
    ELSE IF Lower(m.type) \in {"result", "data"} /\ m.payload = "scored"
           THEN << Event(src, "result", "completed", "norm") >> ELSE << >>

TailFinal(m, final) ==
  IF m = NoMsg THEN final
  ELSE IF IsCompletion(m)
    THEN IF m.payload = "scored" THEN "norm" ELSE final
    ELSE IF Lower(m.type) \in {"result", "data"} /\ m.payload = "scored"
           THEN "norm" ELSE final

RECURSIVE LoopEvents(_, _)
LoopEvents(src, msgs) ==
  IF msgs = << >> THEN << >>
  ELSE MsgEvents(src, Head(msgs)) \o LoopEvents(src, Tail(msgs))

RECURSIVE LoopFinal(_, _)
LoopFinal(msgs, final) ==
  IF msgs = << >> THEN final
  ELSE LoopFinal(Tail(msgs), MsgFinal(Head(msgs), final))

\* the two events of the `except` clause of snipe_benchmark
FailureEvents(src) ==
  << Event(src, "error", "failed", "none"),
     Event(src, "done", "failed", "none") >>

\* the closing `done` of the successful path
DoneEvents(src) == << Event(src, "done", "completed", "none") >>

\* One run of the external world for one extraction:
\*   cache : get_cached_result misses, hits, or raises (database error)
\*   conn  : requests.post / raise_for_status succeeds or raises
\*   msgs  : the terminated messages received from the agent
\*   tail  : the unterminated remainder of the buffer, if any
\*   fault : "stream" - iter_content raises after msgs (timeout, reset);
\*           "save"   - saving final_result raises; "none" - neither
Scenarios ==
  { sc \in [cache : {"miss", "hit", "raise"}, conn : {"ok", "fail"},
            msgs : UNION { [1..n -> AgentMsgs] : n \in 0..MaxMsgs },
            tail : AgentMsgs \cup {NoMsg},
            fault : {"none", "stream", "save"}] :
      \* one representative of the inputs the task never looks at
      /\ sc.cache # "miss" =>
           sc.conn = "ok" /\ sc.msgs = << >> /\ sc.tail = NoMsg /\ sc.fault = "none"
      /\ sc.conn = "fail" => sc.msgs = << >> /\ sc.tail = NoMsg /\ sc.fault = "none"
      /\ sc.fault = "stream" => sc.tail = NoMsg }

\* list(worker.snipe_benchmark(source, model)): the events collected and
\* whether the generator raised instead of returning; saved is what
\* save_benchmark_result stored ("none": nothing)
snipe_benchmark(src, sc) ==
  LET status == << Event(src, "status", "running", "none") >>
      log    == << Event(src, "log", "running", "none") >>
      final  == TailFinal(sc.tail, LoopFinal(sc.msgs, "none"))
      body   == LoopEvents(src, sc.msgs) \o TailEvents(src, sc.tail)
  IN
  IF sc.cache = "raise"
    THEN [raised |-> TRUE, events |-> << >>, saved |-> "none"]
  ELSE IF sc.cache = "hit"
    THEN [raised |-> FALSE,
          events |-> status \o << Event(src, "cache_hit", "completed", "cached"),
                                  Event(src, "result", "completed", "cached") >>,
          saved |-> "none"]
  ELSE IF sc.conn = "fail"
    THEN [raised |-> FALSE, events |-> status \o log \o FailureEvents(src),
          saved |-> "none"]
  ELSE IF sc.fault = "stream"
    THEN [raised |-> FALSE,
          events |-> status \o log \o log \o LoopEvents(src, sc.msgs)
                       \o FailureEvents(src),
          saved |-> "none"]
  ELSE IF sc.fault = "save" /\ final # "none"
    THEN [raised |-> FALSE,
          events |-> status \o log \o log \o body \o FailureEvents(src),
          saved |-> "none"]
  ELSE [raised |-> FALSE,
        events |-> status \o log \o log \o body \o DoneEvents(src),
        saved |-> final]

(***************************************************************************)
(* Task pool dispatcher: parallel_snipe / parallel_compare                 *)
(***************************************************************************)
\* keys of BENCHMARK_SOURCES, in the order of config.py
BENCHMARK_SOURCES ==
  << "huggingface", "lmsys_arena", "vellum", "livecodebench", "mask", "vectara" >>

\* number of source keys a request may name
NumSources == 3

Sources == { BENCHMARK_SOURCES[i] : i \in 1..NumSources }

Models == {"model_a", "model_b"}

\* a unit of work: (source, model)
AllUnits == Sources \X Models

\* the validated request of /api/search or /api/compare
Requests ==
  [route : {"search"}, sources : { { BENCHMARK_SOURCES[i] : i \in 1..n } : n \in 1..NumSources }]
    \cup [route : {"compare"},
          sources : { { BENCHMARK_SOURCES[i] : i \in 1..n } : n \in 1..(NumSources \div 2) }]

\* the tasks submitted to the executor
Tasks(req) ==
  IF req.route = "search"
    THEN { << s, "model_a" >> : s \in req.sources }
    ELSE req.sources \X Models

MAX_WORKERS == 5

\* number of tasks of the requests served under the full aggregator
MaxStreamUnits == 1

StreamRequests ==
  { r \in Requests : r.route = "search" /\ Cardinality(Tasks(r)) <= MaxStreamUnits }

Orchestrator == "orchestrator"

SystemEvent == Event(Orchestrator, "system", "running", "none")
CompleteEvent == Event(Orchestrator, "complete", "completed", "none")
InitEvent == [Event("", "init", "running", "none") EXCEPT !.model = "model_a"]

\* the value a submitted task's future holds before the task has finished
NoFuture == [raised |-> FALSE, events |-> << >>, saved |-> "none"]

\* parallel_compare sets event["model"] on each forwarded event
TagModel(req, u, e) ==
  IF req.route = "compare" THEN [e EXCEPT !.model = u[2]] ELSE e

\* body of the as_completed loop for one future: the events it yields
ForwardFuture(req, u, fut) ==
  IF fut.raised
    THEN << TagModel(req, u, Event(u[1], "error", "failed", "none")) >>
    ELSE [ i \in 1..Len(fut.events) |-> TagModel(req, u, fut.events[i]) ]

\* the external world of the extractions run under the aggregator
FreshScored ==
  [cache |-> "miss", conn |-> "ok",
   msgs |-> << [type |-> "COMPLETE", completed |-> TRUE, payload |-> "scored"] >>,
   tail |-> NoMsg, fault |-> "none"]

StreamScenarios ==
  { FreshScored,
    [FreshScored EXCEPT !.cache = "hit", !.msgs = << >>],
    [FreshScored EXCEPT !.cache = "raise", !.msgs = << >>],
    [FreshScored EXCEPT !.conn = "fail", !.msgs = << >>] }

(***************************************************************************)
(* Streaming aggregator and admission gate: sse_stream_with_keepalive      *)
(***************************************************************************)
MAX_SSE_CONNECTIONS == 2

\* keepalive comments one stream may emit
MaxKeepalives == 1

\* mutant: a successful acquire that forgets to take the permit
acquire_value_kept(permits) == permits

\* sse_semaphore.acquire(blocking=False): its result and the counter after it
acquire_ok(permits) == permits > 0

acquire_value(permits) == IF permits > 0 THEN permits - 1 ELSE permits
\* sse_semaphore.release()
release_value(permits) == permits + 1

NoSource == ""

\* the lines written to the client
DataLine(e) == << "data", e >>
KeepaliveLine == << "comment", "keepalive" >>
TooManyStreams == [type |-> "error", source |-> NoSource, message |-> "Too many active streams"]
ProducerError == [type |-> "error", source |-> NoSource, message |-> "producer"]

VARIABLES
  request,         \* the validated request being served
  ustate,          \* per unit: "none" | "queued" | "running" | "finished" | "forwarded"
  future,          \* per unit: the result of list(snipe_benchmark(...))
  gpc,             \* position of parallel_snipe / parallel_compare (the generator)
  gcur,            \* the events of the future being forwarded
  gidx,            \* how many of them were yielded
  yielded,         \* every event the generator yielded so far
  ppc,             \* position of the producer thread
  event_queue,     \* Queue()
  is_complete,     \* threading.Event()
  sse_semaphore,   \* permits of the admission gate
  cpc,             \* position of the consumer loop of the session
  out,             \* the lines the session wrote to the client
  sess             \* the sessions sharing the gate (see GateStart)

\* The offline engines (snapshots, regression detector, reliability score)
\* work on score matrices already collected, apart from the streaming path.
VARIABLES
  clock,           \* datetime.utcnow() as seen by the next call
  snaps,           \* what create_snapshot returned, call by call
  held,            \* the snapshot a caller holds, in the form it has now
  store,           \* the rows of the snapshots table, in insertion order
  call,            \* the arguments of the engine call under way
  result,          \* what the last call returned
  engine_history,  \* TemporalDiffEngine._history, per (model, benchmark, version)
  recorded         \* every record passed to record_extraction, in call order

\* The analyst's benchmark report: scout threads, their queue and the two
\* generators reading it (phase2/mino_analyst.py).
VARIABLES
  squad_q,         \* q = queue.Queue() of _run_parallel_scouts
  puts,            \* every message put on the queue so far
  scout,           \* per scout thread: its position and what _call_mino gave
  futures,         \* per scout: whether its future is done, and its result
  squad_pc,        \* position of the generator _run_parallel_scouts
  squad_out,       \* the events _run_parallel_scouts yielded
  report_pc,       \* position of generate_benchmark_report_stream
  scout_results,   \* scout_results of generate_benchmark_report_stream
  report_out       \* the events generate_benchmark_report_stream yielded

streamVars ==
  << request, ustate, future, gpc, gcur, gidx, yielded, ppc, event_queue,
     is_complete, sse_semaphore, cpc, out >>

temporalVars == << engine_history, recorded >>

phase2Vars == << clock, snaps, held, store, call, result, temporalVars >>

analystVars ==
  << squad_q, puts, scout, futures, squad_pc, squad_out, report_pc,
     scout_results, report_out >>

vars == << streamVars, sess, phase2Vars, analystVars >>

\* nothing was recorded in the temporal diff engine
EngineIdle == engine_history = << >> /\ recorded = << >>

\* no report is being generated
AnalystIdle ==
  /\ squad_q = << >>
  /\ puts = << >>
  /\ scout = << >>
  /\ futures = << >>
  /\ squad_pc = "idle"
  /\ squad_out = << >>
  /\ report_pc = "idle"
  /\ scout_results = << >>
  /\ report_out = << >>

NoCall == [fn |-> "none"]

\* no engine call was made, the snapshots table is empty
Phase2Idle ==
  /\ clock = 0
  /\ snaps = << >>
  /\ held = NoCall
  /\ store = << >>
  /\ call = NoCall
  /\ result = NoCall
  /\ EngineIdle

\* number of sessions contending for the gate
NumSessions == 3

Sessions == 1..NumSessions

NewSession == [pc |-> "new", producer |-> "none", acquired |-> FALSE]

\* a request arrives: nothing has run yet
InitRun(reqs) ==
  /\ request \in reqs
  /\ ustate = [u \in AllUnits |-> "none"]
  /\ future = [u \in AllUnits |-> NoFuture]
  /\ gpc = IF request.route = "compare" THEN "init" ELSE "start"
  /\ gcur = << >>
  /\ gidx = 0
  /\ yielded = << >>
  /\ ppc = "unstarted"
  /\ event_queue = << >>
  /\ is_complete = FALSE
  /\ cpc = "new"
  /\ out = << >>
  /\ sess = [s \in Sessions |-> NewSession]
  /\ Phase2Idle
  /\ AnalystIdle

\* /api/search under the aggregator; the other sessions hold all permits or none
InitStream ==
  /\ InitRun(StreamRequests)
  /\ sse_semaphore \in {0, MAX_SSE_CONNECTIONS}

----------------------------------------------------------------------------
\* producer(): `event_queue.put(("data", event))` and the test for "complete"
ProducerPut(e) ==
  /\ event_queue' = Append(event_queue, << "data", e >>)
  /\ yielded' = Append(yielded, e)
  /\ ppc' = IF e.type = "complete" THEN "set_complete" ELSE "iterating"

\* compare_models.generate: the init event precedes parallel_compare
GenInit ==
  /\ ppc = "iterating" /\ gpc = "init"
  /\ ProducerPut(InitEvent)
  /\ gpc' = "start"
  /\ UNCHANGED << analystVars, phase2Vars, sess, request, ustate, future, gcur, gidx, is_complete,
                  sse_semaphore, cpc, out >>

\* the `system` event
GenSystem ==
  /\ ppc = "iterating" /\ gpc = "start"
  /\ ProducerPut(SystemEvent)
  /\ gpc' = "submit"
  /\ UNCHANGED << analystVars, phase2Vars, sess, request, ustate, future, gcur, gidx, is_complete,
                  sse_semaphore, cpc, out >>

\* executor.submit for every task
GenSubmit ==
  /\ ppc = "iterating" /\ gpc = "submit"
  /\ ustate' = [u \in AllUnits |-> IF u \in Tasks(request) THEN "queued" ELSE "none"]
  /\ gpc' = "wait"
  /\ UNCHANGED << analystVars, phase2Vars, sess, request, future, gcur, gidx, yielded, ppc, event_queue,
                  is_complete, sse_semaphore, cpc, out >>

\* the executor cannot be set up (RuntimeError: can't start new thread):
\* the generator raises and producer() reports it
GenSubmitFails ==
  /\ ppc = "iterating" /\ gpc = "submit"
  /\ event_queue' = Append(event_queue, << "error", ProducerError >>)
  /\ ppc' = "set_complete"
  /\ gpc' = "raised"
  /\ UNCHANGED << analystVars, phase2Vars, sess, request, ustate, future, gcur, gidx, yielded, is_complete,
                  sse_semaphore, cpc, out >>

\* a pool thread picks a queued task up
TaskStart(u) ==
  /\ ustate[u] = "queued"
  /\ Cardinality({ v \in AllUnits : ustate[v] = "running" }) < MAX_WORKERS
  /\ ustate' = [ustate EXCEPT ![u] = "running"]
  /\ UNCHANGED << analystVars, phase2Vars, sess, request, future, gpc, gcur, gidx, yielded, ppc, event_queue,
                  is_complete, sse_semaphore, cpc, out >>

\* the task returns its list of events, or raises; world is what the cache,
\* the network and the agent may do during it
TaskFinish(u, world) ==
  /\ ustate[u] = "running"
  /\ \E sc \in world :
       future' = [future EXCEPT ![u] = snipe_benchmark(u[1], sc)]
  /\ ustate' = [ustate EXCEPT ![u] = "finished"]
  /\ UNCHANGED << analystVars, phase2Vars, sess, request, gpc, gcur, gidx, yielded, ppc, event_queue,
                  is_complete, sse_semaphore, cpc, out >>

\* mutant: future.result() outside the try: the task's exception leaves the
\* dispatcher
GenTakeFutureUncaught(u) ==
  /\ ppc = "iterating" /\ gpc = "wait"
  /\ ustate[u] = "finished"
  /\ IF future[u].raised
       THEN /\ event_queue' = Append(event_queue, << "error", ProducerError >>)
            /\ ppc' = "set_complete"
            /\ gpc' = "raised"
            /\ UNCHANGED << yielded, gcur, gidx >>
       ELSE LET evs == ForwardFuture(request, u, future[u]) IN
            /\ ProducerPut(evs[1])
            /\ gcur' = evs
            /\ gidx' = 1
            /\ gpc' = IF Len(evs) > 1 THEN "events" ELSE "wait"
  /\ ustate' = [ustate EXCEPT ![u] = "forwarded"]
  /\ UNCHANGED << analystVars, phase2Vars, sess, request, future, is_complete, sse_semaphore, cpc, out >>

\* mutant: a finished future is taken up while the events of another are
\* still being yielded
GenTakeFutureMidBlock(u) ==
  /\ ppc = "iterating" /\ gpc \in {"wait", "events"}
  /\ ustate[u] = "finished"
  /\ LET evs == ForwardFuture(request, u, future[u]) IN
       /\ ProducerPut(evs[1])
       /\ gcur' = evs
       /\ gidx' = 1
       /\ gpc' = IF Len(evs) > 1 THEN "events" ELSE "wait"
  /\ ustate' = [ustate EXCEPT ![u] = "forwarded"]
  /\ UNCHANGED << analystVars, phase2Vars, sess, request, future, is_complete, sse_semaphore, cpc, out >>

\* as_completed hands over a finished future; its first event is yielded
GenTakeFuture(u) ==
  /\ ppc = "iterating" /\ gpc = "wait"
  /\ ustate[u] = "finished"
  /\ LET evs == ForwardFuture(request, u, future[u]) IN
       /\ ProducerPut(evs[1])
       /\ gcur' = evs
       /\ gidx' = 1
       /\ gpc' = IF Len(evs) > 1 THEN "events" ELSE "wait"
  /\ ustate' = [ustate EXCEPT ![u] = "forwarded"]
  /\ UNCHANGED << analystVars, phase2Vars, sess, request, future, is_complete, sse_semaphore, cpc, out >>

\* `for event in events: yield event`
GenNextEvent ==
  /\ ppc = "iterating" /\ gpc = "events"
  /\ ProducerPut(gcur[gidx + 1])
  /\ gidx' = gidx + 1
  /\ gpc' = IF gidx + 1 < Len(gcur) THEN "events" ELSE "wait"
  /\ UNCHANGED << analystVars, phase2Vars, sess, request, ustate, future, gcur, is_complete, sse_semaphore,
                  cpc, out >>

\* mutant: `complete` as soon as no finished future is waiting
GenCompleteEarly ==
  /\ ppc = "iterating" /\ gpc = "wait"
  /\ \A u \in Tasks(request) : ustate[u] # "finished"
  /\ ProducerPut(CompleteEvent)
  /\ gpc' = "end"
  /\ UNCHANGED << analystVars, phase2Vars, sess, request, ustate, future, gcur, gidx, is_complete,
                  sse_semaphore, cpc, out >>

\* as_completed is exhausted, the executor is shut down: the `complete` event
GenComplete ==
  /\ ppc = "iterating" /\ gpc = "wait"
  /\ \A u \in Tasks(request) : ustate[u] = "forwarded"
  /\ ProducerPut(CompleteEvent)
  /\ gpc' = "end"
  /\ UNCHANGED << analystVars, phase2Vars, sess, request, ustate, future, gcur, gidx, is_complete,
                  sse_semaphore, cpc, out >>

\* mutant: producer() without its finally block
ProducerWithoutFinally ==
  /\ ppc = "set_complete"
  /\ ppc' = "exited"
  /\ UNCHANGED << analystVars, phase2Vars, sess, request, ustate, future, gpc, gcur, gidx, yielded,
                  event_queue, is_complete, sse_semaphore, cpc, out >>

\* producer(): finally: is_complete.set()
ProducerSetComplete ==
  /\ ppc = "set_complete"
  /\ is_complete' = TRUE
  /\ ppc' = "put_done"
  /\ UNCHANGED << analystVars, phase2Vars, sess, request, ustate, future, gpc, gcur, gidx, yielded,
                  event_queue, sse_semaphore, cpc, out >>

\* producer(): finally: event_queue.put(("done", None))
ProducerPutDone ==
  /\ ppc = "put_done"
  /\ event_queue' = Append(event_queue, << "done", "None" >>)
  /\ ppc' = "exited"
  /\ UNCHANGED << analystVars, phase2Vars, sess, request, ustate, future, gpc, gcur, gidx, yielded,
                  is_complete, sse_semaphore, cpc, out >>

----------------------------------------------------------------------------
\* the gate admits the session: the queue is created, the producer started
SessionStart ==
  /\ cpc = "new"
  /\ acquire_ok(sse_semaphore)
  /\ sse_semaphore' = acquire_value(sse_semaphore)
  /\ ppc' = "iterating"
  /\ cpc' = "get"
  /\ UNCHANGED << analystVars, phase2Vars, sess, request, ustate, future, gpc, gcur, gidx, yielded,
                  event_queue, is_complete, out >>

\* mutant: the rejection inside the try block, so that finally releases
SessionRejectReleases ==
  /\ cpc = "new"
  /\ ~ acquire_ok(sse_semaphore)
  /\ sse_semaphore' = release_value(acquire_value(sse_semaphore))
  /\ out' = Append(out, DataLine(TooManyStreams))
  /\ cpc' = "rejected"
  /\ UNCHANGED << analystVars, phase2Vars, sess, request, ustate, future, gpc, gcur, gidx, yielded, ppc,
                  event_queue, is_complete >>

\* the gate rejects the session: one error line, then return
SessionReject ==
  /\ cpc = "new"
  /\ ~ acquire_ok(sse_semaphore)
  /\ sse_semaphore' = acquire_value(sse_semaphore)
  /\ out' = Append(out, DataLine(TooManyStreams))
  /\ cpc' = "rejected"
  /\ UNCHANGED << analystVars, phase2Vars, sess, request, ustate, future, gpc, gcur, gidx, yielded, ppc,
                  event_queue, is_complete >>

\* event_queue.get returned an item
ConsumerGet ==
  /\ cpc = "get"
  /\ event_queue # << >>
  /\ LET item == Head(event_queue) IN
       /\ event_queue' = Tail(event_queue)
       /\ IF item[1] = "done"
            THEN /\ out' = out
                 /\ cpc' = "closed"
                 /\ sse_semaphore' = release_value(sse_semaphore)
          ELSE IF item[1] = "error"
            THEN /\ out' = Append(out, DataLine(item[2]))
                 /\ cpc' = "closed"
                 /\ sse_semaphore' = release_value(sse_semaphore)
          ELSE /\ out' = Append(out, DataLine(item[2]))
               /\ cpc' = "get"
               /\ sse_semaphore' = sse_semaphore
  /\ UNCHANGED << analystVars, phase2Vars, sess, request, ustate, future, gpc, gcur, gidx, yielded, ppc,
                  is_complete >>

\* event_queue.get timed out on an empty queue: Empty is raised
ConsumerTimeout ==
  /\ cpc = "get"
  /\ event_queue = << >>
  /\ cpc' = "empty"
  /\ UNCHANGED << analystVars, phase2Vars, sess, request, ustate, future, gpc, gcur, gidx, yielded, ppc,
                  event_queue, is_complete, sse_semaphore, out >>

KeepalivesIn(lines) == Cardinality({ i \in 1..Len(lines) : lines[i] = KeepaliveLine })

\* mutant: except Empty without the is_complete test
ConsumerAfterEmptyUnchecked ==
  /\ cpc = "empty"
  /\ KeepalivesIn(out) < MaxKeepalives
  /\ out' = Append(out, KeepaliveLine)
  /\ cpc' = "get"
  /\ UNCHANGED << analystVars, phase2Vars, sess, request, ustate, future, gpc, gcur, gidx, yielded, ppc,
                  event_queue, is_complete, sse_semaphore >>

\* except Empty: break when the producer has finished, else a keepalive
ConsumerAfterEmpty ==
  /\ cpc = "empty"
  /\ IF is_complete
       THEN /\ cpc' = "closed"
            /\ sse_semaphore' = release_value(sse_semaphore)
            /\ out' = out
       ELSE /\ KeepalivesIn(out) < MaxKeepalives
            /\ out' = Append(out, KeepaliveLine)
            /\ cpc' = "get"
            /\ sse_semaphore' = sse_semaphore
  /\ UNCHANGED << analystVars, phase2Vars, sess, request, ustate, future, gpc, gcur, gidx, yielded, ppc,
                  event_queue, is_complete >>

----------------------------------------------------------------------------
\* The gate seen by several sessions.  Of a session only what the gate
\* depends on is kept: where sse_stream_with_keepalive stands (pc) and how
\* far its producer thread is.
GateVarsOnly ==
  UNCHANGED << analystVars, phase2Vars, request, ustate, future, gpc, gcur, gidx, yielded, ppc,
               event_queue, is_complete, cpc, out >>

\* the generator is started: acquire, then either the error line or the
\* queue, the producer thread and the consumer loop
GateStart(s) ==
  /\ sess[s].pc = "new"
  /\ sess' = [sess EXCEPT ![s] =
       IF acquire_ok(sse_semaphore)
         THEN [pc |-> "open", producer |-> "running", acquired |-> TRUE]
         ELSE [pc |-> "rejected", producer |-> "none", acquired |-> FALSE]]
  /\ sse_semaphore' = acquire_value(sse_semaphore)
  /\ GateVarsOnly

\* after the error line: `return` (or the client closes the generator there)
GateRejectReturn(s) ==
  /\ sess[s].pc = "rejected"
  /\ sess' = [sess EXCEPT ![s].pc = "closed"]
  /\ UNCHANGED sse_semaphore
  /\ GateVarsOnly

\* the producer leaves its loop (complete seen, generator raised) ...
GateProducerLeavesLoop(s) ==
  /\ sess[s].producer = "running"
  /\ sess' = [sess EXCEPT ![s].producer = "closing"]
  /\ UNCHANGED sse_semaphore
  /\ GateVarsOnly

\* ... and ends after its finally block
GateProducerExit(s) ==
  /\ sess[s].producer = "closing"
  /\ sess' = [sess EXCEPT ![s].producer = "exited"]
  /\ UNCHANGED sse_semaphore
  /\ GateVarsOnly

\* the consumer loop breaks (done, error, or Empty with is_complete set):
\* finally: release
GateFinish(s) ==
  /\ sess[s].pc = "open"
  /\ sess[s].producer \in {"closing", "exited"}
  /\ sess' = [sess EXCEPT ![s].pc = "closed"]
  /\ sse_semaphore' = release_value(sse_semaphore)
  /\ GateVarsOnly

\* mutant: release after the loop instead of in finally
GateDisconnectLeak(s) ==
  /\ sess[s].pc = "open"
  /\ sess' = [sess EXCEPT ![s].pc = "closed"]
  /\ UNCHANGED sse_semaphore
  /\ GateVarsOnly

\* the client went away: GeneratorExit at a yield of the loop; finally: release
GateDisconnect(s) ==
  /\ sess[s].pc = "open"
  /\ sess' = [sess EXCEPT ![s].pc = "closed"]
  /\ sse_semaphore' = release_value(sse_semaphore)
  /\ GateVarsOnly

\* an exception inside the try block (json.dumps of an event that cannot be
\* serialised): it leaves through finally: release
GateFault(s) ==
  /\ sess[s].pc = "open"
  /\ sess' = [sess EXCEPT ![s].pc = "failed"]
  /\ sse_semaphore' = release_value(sse_semaphore)
  /\ GateVarsOnly

----------------------------------------------------------------------------
\* /api/search served by the aggregator
NextStream ==
  \/ GenSystem
  \/ GenSubmit
  \/ GenSubmitFails
  \/ \E u \in AllUnits : TaskStart(u)
  \/ \E u \in AllUnits : TaskFinish(u, StreamScenarios)
  \/ \E u \in AllUnits : GenTakeFuture(u)
  \/ GenNextEvent
  \/ GenComplete
  \/ ProducerSetComplete
  \/ ProducerPutDone
  \/ SessionStart
  \/ SessionReject
  \/ ConsumerGet
  \/ ConsumerTimeout
  \/ ConsumerAfterEmpty

Spec == InitStream /\ [][NextStream]_vars

\* Every thread that can take a step eventually takes one: the producer
\* thread, the pool threads, and the consumer (the client keeps reading).
FairStream ==
  /\ WF_vars(GenSystem \/ GenSubmit \/ GenSubmitFails \/ GenNextEvent \/ GenComplete
               \/ ProducerSetComplete \/ ProducerPutDone
               \/ \E u \in AllUnits : GenTakeFuture(u))
  /\ \A u \in AllUnits : WF_vars(TaskStart(u) \/ TaskFinish(u, StreamScenarios))
  /\ WF_vars(SessionStart \/ SessionReject \/ ConsumerGet \/ ConsumerTimeout
               \/ ConsumerAfterEmpty)

FairSpec == InitStream /\ [][NextStream]_vars /\ FairStream

\* The dispatcher on both routes.  The consumer never enables or disables a
\* step of the producer thread or of the pool, so it is left out here.
InitDispatch ==
  /\ InitRun(Requests)
  /\ sse_semaphore = MAX_SSE_CONNECTIONS

NextDispatch ==
  \/ SessionStart
  \/ GenInit
  \/ GenSystem
  \/ GenSubmit
  \/ GenSubmitFails
  \/ \E u \in AllUnits : TaskStart(u)
  \/ \E u \in AllUnits : TaskFinish(u, StreamScenarios)
  \/ \E u \in AllUnits : GenTakeFuture(u)
  \/ GenNextEvent
  \/ GenComplete
  \/ ProducerSetComplete
  \/ ProducerPutDone

SpecDispatch == InitDispatch /\ [][NextDispatch]_vars

\* One unit of work against everything the cache, the network and the agent
\* may do.
InitUnit ==
  /\ InitRun({ [route |-> "search", sources |-> {BENCHMARK_SOURCES[1]}] })
  /\ sse_semaphore = MAX_SSE_CONNECTIONS

NextUnit ==
  \/ SessionStart
  \/ GenSystem
  \/ GenSubmit
  \/ \E u \in AllUnits : TaskStart(u)
  \/ \E u \in AllUnits : TaskFinish(u, Scenarios)
  \/ \E u \in AllUnits : GenTakeFuture(u)
  \/ GenNextEvent
  \/ GenComplete

SpecUnit == InitUnit /\ [][NextUnit]_vars

\* Sessions contending for the gate.
InitGate == InitUnit

NextGate ==
  \E s \in Sessions :
    \/ GateStart(s)
    \/ GateRejectReturn(s)
    \/ GateProducerLeavesLoop(s)
    \/ GateProducerExit(s)
    \/ GateFinish(s)
    \/ GateDisconnect(s)
    \/ GateFault(s)

SpecGate == InitGate /\ [][NextGate]_vars

(***************************************************************************)
(* Properties                                                              *)
(***************************************************************************)
Min(a, b) == IF a < b THEN a ELSE b

\* the line closes the stream for the client: `complete`, or an error line
\* of the aggregator itself (no source)
IsTerminalLine(l) ==
  /\ l[1] = "data"
  /\ \/ l[2].type = "complete"
     \/ l[2].type = "error" /\ l[2].source = NoSource

IsProducerEvent(l) == l[1] = "data" /\ l[2].source # NoSource

\* the events of the producer among the lines written, in order
Delivered(lines) ==
  LET kept == SelectSeq(lines, IsProducerEvent)
  IN  [ i \in 1..Len(kept) |-> kept[i][2] ]

\* the events the dispatcher yielded for unit u, in order
UnitEvents(u) ==
  LET OfUnit(e) == /\ e.source = u[1]
                   /\ request.route = "compare" => e.model = u[2]
  IN  SelectSeq(yielded, OfUnit)

\* the events of parallel_snipe / parallel_compare themselves (the init event
\* of /api/compare comes from the route, before the dispatcher runs)
DispatcherEvents ==
  IF yielded # << >> /\ yielded[1] = InitEvent THEN Tail(yielded) ELSE yielded

TypesAt(evs, types) == { i \in 1..Len(evs) : evs[i].type \in types }

\* every task run so far returned a list of events that ends in `done`, and
\* the dispatcher itself did not raise
TasksEndInDone ==
  /\ gpc # "raised"
  /\ \A u \in Tasks(request) :
       ustate[u] \in {"finished", "forwarded"} =>
         /\ ~ future[u].raised
         /\ future[u].events[Len(future[u].events)].type = "done"

\* C1: over tasks that each end in `done`: when the stream is closed, no data
\* event is left in the queue and the stream's data lines are exactly the
\* events the producer enqueued, each once and in order.
C1_NoEventLoss ==
  (cpc = "closed" /\ TasksEndInDone) =>
    /\ \A i \in 1..Len(event_queue) : event_queue[i][1] # "data"
    /\ Delivered(out) = yielded

\* C2: a stream that has ended holds exactly one terminal line (`complete` or
\* the aggregator's error), and that line is its last.
C2_ExactlyOneTerminal ==
  cpc \in {"closed", "rejected"} =>
    { i \in 1..Len(out) : IsTerminalLine(out[i]) } = { Len(out) } /\ out # << >>

\* C3: the permits available are MAX_SSE_CONNECTIONS minus the sessions that
\* acquired and have not released; never negative, never above the capacity,
\* and all back once no session is open.
C3_GateConservation ==
  LET open == { s \in Sessions : sess[s].pc = "open" } IN
    /\ sse_semaphore = MAX_SSE_CONNECTIONS - Cardinality(open)
    /\ sse_semaphore >= 0
    /\ sse_semaphore <= MAX_SSE_CONNECTIONS
    /\ open = {} => sse_semaphore = MAX_SSE_CONNECTIONS

C3_Witness ==
  \E a, b, c \in Sessions :
    /\ sess[a].pc = "failed"
    /\ sess[b].pc = "closed" /\ sess[b].acquired /\ sess[b].producer = "running"
    /\ sess[c].pc = "open"

\* C4: a rejected session wrote the one "Too many active streams" error line
\* and nothing else, started no producer, never advanced the event generator
\* (no task submitted) and left the permits as they were.
C4_Rejection ==
  cpc = "rejected" =>
    /\ out = << DataLine(TooManyStreams) >>
    /\ ppc = "unstarted"
    /\ gpc = "start" /\ yielded = << >> /\ event_queue = << >>
    /\ \A u \in AllUnits : ustate[u] = "none"
    /\ sse_semaphore = 0

C4_Witness == cpc = "rejected" /\ Len(out) = 1

\* C5: as long as no session has released, the acquires that succeeded are
\* min(sessions that called acquire, capacity); the others were refused.
C5_AtomicAcquire ==
  LET called   == { s \in Sessions : sess[s].pc # "new" }
      acquired == { s \in Sessions : sess[s].acquired }
  IN  (\A s \in acquired : sess[s].pc = "open") =>
        /\ Cardinality(acquired) = Min(Cardinality(called), MAX_SSE_CONNECTIONS)
        /\ \A s \in called \ acquired : sess[s].pc \in {"rejected", "closed"}

C5_Witness ==
  /\ \A s \in Sessions : sess[s].pc \in {"open", "rejected"}
  /\ \E s \in Sessions : sess[s].pc = "rejected"
  /\ \E s \in Sessions : sess[s].pc = "open"

\* C6: under fair scheduling the consumer loop ends: the stream is closed.
C6_AggregatorTerminates == <>(cpc \in {"closed", "rejected"})

C6_Witness ==
  cpc = "closed" /\ ppc = "exited" /\ KeepalivesIn(out) > 0 /\ event_queue = << >>

\* C7: once the dispatcher is through, the events of every unit end with a
\* `done`, and hold exactly one.
C7_PerUnitDone ==
  gpc = "end" =>
    \A u \in Tasks(request) :
      LET evs == UnitEvents(u) IN
        /\ evs # << >>
        /\ evs[Len(evs)].type = "done"
        /\ Cardinality(TypesAt(evs, {"done"})) = 1

\* C8: once the dispatcher is through, the events of every unit hold exactly
\* one of result / warning / error, before a `done`.
C8_OneTerminalPerUnit ==
  gpc = "end" =>
    \A u \in Tasks(request) :
      LET evs == UnitEvents(u) IN
        /\ Cardinality(TypesAt(evs, {"result", "warning", "error"})) = 1
        /\ \A i \in TypesAt(evs, {"result", "warning", "error"}) :
             \E j \in TypesAt(evs, {"done"}) : i < j

\* C9: a task that raised does not end the dispatcher, does not stop it from
\* going on, and at the end every other task was run and forwarded in full,
\* followed by `complete`.
C9_FailureIsolation ==
  \A u \in Tasks(request) :
    future[u].raised =>
      /\ gpc # "raised"
      /\ gpc # "end" => ENABLED NextDispatch
      /\ gpc = "end" =>
           /\ \A v \in Tasks(request) \ {u} :
                /\ ustate[v] = "forwarded"
                /\ UnitEvents(v) = ForwardFuture(request, v, future[v])
           /\ yielded[Len(yielded)] = CompleteEvent

C9_Witness ==
  /\ gpc = "end"
  /\ \E u, v \in Tasks(request) :
       /\ future[u].raised
       /\ ~ future[v].raised /\ Len(UnitEvents(v)) = 5

\* C10: the dispatcher's first event is `system`, yielded before any task is
\* submitted; `complete` is yielded once, as the last event, after every
\* task was forwarded.
C10_LifecycleOrder ==
  LET ev == DispatcherEvents IN
    /\ ev # << >> => ev[1] = SystemEvent
    /\ (\E u \in AllUnits : ustate[u] # "none") => ev # << >>
    /\ \A i \in TypesAt(ev, {"complete"}) :
         /\ i = Len(ev)
         /\ ev[i] = CompleteEvent
         /\ \A u \in Tasks(request) : ustate[u] = "forwarded"
    /\ gpc = "end" => TypesAt(ev, {"complete"}) = { Len(ev) }

C10_Witness ==
  /\ gpc = "end"
  /\ request.route = "compare"
  /\ Len(DispatcherEvents) > 2 + Cardinality(Tasks(request))


\* C11: the consumer reaches its `except Empty` branch only from a wait on an
\* empty queue; a step of that branch taken while is_complete is not set
\* writes exactly one keepalive comment and goes back to waiting (the stream
\* stays open); a keepalive is written by no other step, it is a comment
\* line, not a data line, and the stream is never closed by the step that
\* writes it.
C11_KeepaliveRule ==
  [][ /\ (cpc' = "empty" /\ cpc # "empty") => (cpc = "get" /\ event_queue = << >>)
      /\ (cpc = "empty" /\ ~ is_complete /\ cpc' # cpc) =>
            (out' = Append(out, KeepaliveLine) /\ cpc' = "get")
      /\ (KeepalivesIn(out') # KeepalivesIn(out)) =>
            /\ cpc = "empty" /\ ~ is_complete
            /\ out' = Append(out, KeepaliveLine)
            /\ out'[Len(out')][1] # "data"
            /\ ~ IsTerminalLine(out'[Len(out')])
            /\ cpc' = "get" ]_vars

\* a keepalive was written on an idle wait and a data line followed it
C11_Witness ==
  \E i, j \in 1..Len(out) :
    i < j /\ out[i] = KeepaliveLine /\ out[j][1] = "data" /\ cpc = "get"

(***************************************************************************)
(* Snapshot and integrity engine (phase2/snapshots.py)                     *)
(***************************************************************************)
BenchmarkIds == {"gsm8k", "mmlu"}
Versions == {"2024-01", "2024-02"}
ScoreValues == {70, 80}

\* no request is being streamed while the offline engines are exercised
StreamIdle ==
  /\ request = [route |-> "none", sources |-> {}]
  /\ ustate = [u \in AllUnits |-> "none"]
  /\ future = [u \in AllUnits |-> NoFuture]
  /\ gpc = "start"
  /\ gcur = << >>
  /\ gidx = 0
  /\ yielded = << >>
  /\ ppc = "unstarted"
  /\ event_queue = << >>
  /\ is_complete = FALSE
  /\ sse_semaphore = MAX_SSE_CONNECTIONS
  /\ cpc = "new"
  /\ out = << >>
  /\ sess = [s \in Sessions |-> NewSession]

\* the order of Python's str comparison on the strings used as keys
StrOrder == << "gsm8k", "mmlu", "model_a", "model_b" >>

Rank(k) == CHOOSE i \in 1..Len(StrOrder) : StrOrder[i] = k

\* sorted(seq, key=...): a stable sort; keys[i] is the key of seq[i]
Sorted(seq, keys) ==
  LET n == Len(seq)
      Pos(i) == 1 + Cardinality({ j \in 1..n :
                      \/ Rank(keys[j]) < Rank(keys[i])
                      \/ Rank(keys[j]) = Rank(keys[i]) /\ j < i })
  IN  [p \in 1..n |-> seq[CHOOSE i \in 1..n : Pos(i) = p]]

\* A dict is the sequence of its items << key, value >> in insertion order.
Dicts(K, V) ==
  UNION { { d \in [1..n -> K \X V] : \A i, j \in 1..n : i # j => d[i][1] # d[j][1] }
          : n \in 0..Cardinality(K) }

Keys(d) == [i \in 1..Len(d) |-> d[i][1]]

KeySet(d) == { d[i][1] : i \in 1..Len(d) }

\* d[k] for a key of d
Item(d, k) == d[CHOOSE i \in 1..Len(d) : d[i][1] = k][2]

\* sorted(d.items())
SortedItems(d) == Sorted(d, Keys(d))

\* BenchmarkVersion(benchmark_id, version, source_url)
BenchmarkVersion(id, v) == << id, v, "url" >>

\* BenchmarkVersion.to_dict and BenchmarkVersion(**bv)
BvToDict(bv) == [benchmark_id |-> bv[1], version |-> bv[2], source_url |-> bv[3]]

BvFromDict(d) == << d.benchmark_id, d.version, d.source_url >>

NoHash == << >>

\* Snapshot._compute_hash: the deterministic JSON of hashable_content.
\* SHA-256 is taken as collision free: the digest stands for the string it
\* was computed from.
compute_hash(s) ==
  << "sha256",
     [snapshot_id |-> s.snapshot_id,
      timestamp_utc |-> s.timestamp_utc,
      model_ids |-> Sorted(s.model_ids, s.model_ids),
      model_scores |->
        LET ms == SortedItems(s.model_scores)
        IN  [i \in 1..Len(ms) |-> << ms[i][1], SortedItems(ms[i][2]) >>],
      benchmark_versions |->
        LET bvs == Sorted(s.benchmark_versions,
                          [i \in 1..Len(s.benchmark_versions) |->
                             s.benchmark_versions[i][1]])
        IN  [i \in 1..Len(bvs) |-> BvToDict(bvs[i])],
      weights_used |-> SortedItems(s.weights_used)] >>

\* Snapshot(...) with __post_init__
Snapshot(id, ts, mids, ms, bvs, w, ch, src, ph) ==
  LET s == [snapshot_id |-> id, timestamp_utc |-> ts, model_ids |-> mids,
            model_scores |-> ms, benchmark_versions |-> bvs,
            weights_used |-> w, content_hash |-> ch,
            extraction_source |-> src, phase |-> ph]
  IN  IF ch = NoHash THEN [s EXCEPT !.content_hash = compute_hash(s)] ELSE s

\* Snapshot.verify_integrity
verify_integrity(s) == s.content_hash = compute_hash(s)

\* create_snapshot; now is what datetime.utcnow() returns during the call
create_snapshot(model_scores, benchmark_versions, weights_used, now) ==
  Snapshot(<< "snap", now >>, now,
           Sorted(Keys(model_scores), Keys(model_scores)),
           model_scores, benchmark_versions, weights_used,
           NoHash, "mino", "phase-2")

\* verify_snapshot: the flag of the pair it returns
verify_snapshot(s) == verify_integrity(s)

\* the lists of BenchmarkVersion, one entry per benchmark at most
BenchmarkVersionLists ==
  { l \in UNION { [1..n -> { BenchmarkVersion(b, v) : b \in BenchmarkIds, v \in Versions }]
                  : n \in 0..Cardinality(BenchmarkIds) } :
      \A i, j \in 1..Len(l) : i # j => l[i][1] # l[j][1] }

\* the arguments of create_snapshot: a score matrix, the versions, weights
SnapshotArgs ==
  [model_scores : { d \in Dicts(Models, Dicts(BenchmarkIds, {70}) \ { << >> }) : d # << >> },
   benchmark_versions :
     { l \in BenchmarkVersionLists : \A i \in 1..Len(l) : l[i][2] = "2024-01" },
   weights_used : { w \in Dicts(BenchmarkIds, {1}) : Len(w) # 1 }]

\* a dict as the mapping it stands for, whatever its insertion order
AsMap(d) == [k \in KeySet(d) |-> Item(d, k)]

\* the same input: equal mappings, the same benchmark versions in any order
SameInput(a, b) ==
  /\ KeySet(a.model_scores) = KeySet(b.model_scores)
  /\ \A m \in KeySet(a.model_scores) :
       AsMap(Item(a.model_scores, m)) = AsMap(Item(b.model_scores, m))
  /\ { a.benchmark_versions[i] : i \in 1..Len(a.benchmark_versions) }
       = { b.benchmark_versions[i] : i \in 1..Len(b.benchmark_versions) }
  /\ AsMap(a.weights_used) = AsMap(b.weights_used)

\* largest reading of the clock
MaxClock == 1

\* time passes
Tick ==
  /\ clock < MaxClock
  /\ clock' = clock + 1
  /\ UNCHANGED << analystVars, temporalVars, streamVars, sess, snaps, held, store, call, result >>

\* create_snapshot is called; a second call is given the input of the first,
\* its mappings and its list in any order (any two calls of a longer run
\* are such a pair)
CreateSnapshot(a) ==
  /\ Len(snaps) < 2
  /\ snaps # << >> => SameInput(a, snaps[1].args)
  /\ snaps' = Append(snaps,
       [args |-> a,
        snapshot |-> create_snapshot(a.model_scores, a.benchmark_versions,
                                     a.weights_used, clock)])
  /\ UNCHANGED << analystVars, temporalVars, streamVars, sess, clock, held, store, call, result >>

InitCreate == StreamIdle /\ Phase2Idle /\ AnalystIdle

NextCreate ==
  \/ Tick
  \/ /\ Len(snaps) < 2
     /\ \E a \in SnapshotArgs : CreateSnapshot(a)

SpecCreate == InitCreate /\ [][NextCreate]_vars

\* C12: two create_snapshot calls with the same input (mappings and the
\* benchmark_versions list in any order) return snapshots with equal
\* content_hash.
C12_HashDeterminism ==
  \A i, j \in 1..Len(snaps) :
    SameInput(snaps[i].args, snaps[j].args) =>
      snaps[i].snapshot.content_hash = snaps[j].snapshot.content_hash

----------------------------------------------------------------------------
\* the score matrices: model_id -> {benchmark -> score}
ScoreMatrices == Dicts(Models, Dicts(BenchmarkIds, ScoreValues))

\* a score matrix as the mapping it stands for
MatrixAsMap(ms) == [m \in KeySet(ms) |-> AsMap(Item(ms, m))]

ListAsSet(l) == { l[i] : i \in 1..Len(l) }

\* a snapshot in the hands of a caller: the object or its dict form, and
\* the field that was assigned to since creation, if any
Held(form, data, changed) == [form |-> form, data |-> data, changed |-> changed]

\* the snapshots a caller starts from
HeldArgs ==
  { a \in SnapshotArgs : a.weights_used = << >> /\ Len(a.benchmark_versions) <= 1 }

\* the assignments `snapshot.<field> = <value>` that change the field's
\* value (for a mapping, a set of ids or the version list: its content,
\* not the order it is written in)
Assignments(s) ==
  { << "snapshot_id", << "snap", s.timestamp_utc + 1 >> >>,
    << "timestamp_utc", s.timestamp_utc + 1 >>,
    << "extraction_source", "manual" >>,
    << "phase", "phase-3" >> }
  \cup { << "model_ids", l >> :
           l \in { k \in UNION { [1..n -> Models] : n \in 0..Cardinality(Models) } :
                     /\ \A i, j \in 1..Len(k) : i # j => k[i] # k[j]
                     /\ ListAsSet(k) # ListAsSet(s.model_ids) } }
  \cup { << "model_scores", d >> :
           d \in { m \in ScoreMatrices : MatrixAsMap(m) # MatrixAsMap(s.model_scores) } }
  \cup { << "benchmark_versions", l >> :
           l \in { k \in BenchmarkVersionLists :
                     ListAsSet(k) # ListAsSet(s.benchmark_versions) } }
  \cup { << "weights_used", d >> :
           d \in { w \in Dicts(BenchmarkIds, {1}) : AsMap(w) # AsMap(s.weights_used) } }

\* one field of the held Snapshot object is assigned a different value
Mutate(f, v) ==
  /\ held.form = "object" /\ held.changed = "none"
  /\ held' = Held("object", [held.data EXCEPT ![f] = v], f)
  /\ UNCHANGED << analystVars, temporalVars, streamVars, sess, clock, snaps, store, call, result >>

\* verify_snapshot(held)
Verify ==
  /\ held.form = "object"
  /\ result' = [fn |-> "verify_snapshot", ok |-> verify_snapshot(held.data),
                changed |-> held.changed]
  /\ UNCHANGED << analystVars, temporalVars, streamVars, sess, clock, snaps, held, store, call >>

InitTamper ==
  /\ StreamIdle /\ AnalystIdle /\ EngineIdle
  /\ clock = 0 /\ snaps = << >> /\ store = << >>
  /\ call = NoCall /\ result = NoCall
  /\ held \in { Held("object",
                     create_snapshot(a.model_scores, a.benchmark_versions,
                                     a.weights_used, 0), "none") : a \in HeldArgs }

NextTamper ==
  \/ /\ held.changed = "none"
     /\ \E a \in Assignments(held.data) : Mutate(a[1], a[2])
  \/ Verify

SpecTamper == InitTamper /\ [][NextTamper]_vars

\* C13: after a single field of a Snapshot other than content_hash was
\* given a different value, verify_snapshot returns False.
C13_HashCoversEveryField ==
  (result.fn = "verify_snapshot" /\ result.changed # "none") => ~ result.ok

----------------------------------------------------------------------------
\* Snapshot.to_dict
to_dict(s) ==
  [snapshot_id |-> s.snapshot_id,
   timestamp_utc |-> s.timestamp_utc,
   model_ids |-> s.model_ids,
   model_scores |-> s.model_scores,
   benchmark_versions |->
     [i \in 1..Len(s.benchmark_versions) |-> BvToDict(s.benchmark_versions[i])],
   weights_used |-> s.weights_used,
   content_hash |-> s.content_hash,
   extraction_source |-> s.extraction_source,
   phase |-> s.phase,
   integrity_verified |-> verify_integrity(s)]

\* mutant: from_dict which leaves weights_used at its default
from_dict_defaults(d) ==
  Snapshot(d.snapshot_id, d.timestamp_utc, d.model_ids, d.model_scores,
           [i \in 1..Len(d.benchmark_versions) |-> BvFromDict(d.benchmark_versions[i])],
           << >>, d.content_hash, d.extraction_source, d.phase)

\* dict.get(key, default)
DictGet(d, key, default) == IF key \in DOMAIN d THEN d[key] ELSE default

\* Snapshot.from_dict: the keys read with data.get have a default
from_dict(d) ==
  LET bvs == DictGet(d, "benchmark_versions", << >>)
  IN  Snapshot(d.snapshot_id, d.timestamp_utc, d.model_ids, d.model_scores,
               [i \in 1..Len(bvs) |-> BvFromDict(bvs[i])],
               DictGet(d, "weights_used", << >>),
               DictGet(d, "content_hash", NoHash),
               DictGet(d, "extraction_source", "mino"),
               DictGet(d, "phase", "phase-2"))

\* json.dumps and json.loads of a column: text, and the value read back
json_dumps(x) == << "json", x >>

json_loads(t) == t[2]

\* the row save_snapshot inserts
SnapshotRow(d) ==
  [snapshot_id |-> d.snapshot_id,
   timestamp_utc |-> d.timestamp_utc,
   content_hash |-> d.content_hash,
   model_ids |-> json_dumps(d.model_ids),
   model_scores |-> json_dumps(d.model_scores),
   benchmark_versions |-> json_dumps(d.benchmark_versions),
   weights_used |-> json_dumps(d.weights_used),
   extraction_source |-> d.extraction_source,
   phase |-> d.phase]

\* the constraints of the snapshots table which the row would violate
Violations(rows, r) ==
  { c \in { "snapshot_id", "content_hash" } : \E i \in 1..Len(rows) : rows[i][c] = r[c] }

\* the exception save_snapshot raises for a violated constraint
SaveError(c) == IF c = "content_hash" THEN "ValueError" ELSE "IntegrityError"

\* the dict get_snapshot and get_latest_snapshots build from a row
RowDict(r) ==
  [snapshot_id |-> r.snapshot_id,
   timestamp_utc |-> r.timestamp_utc,
   content_hash |-> r.content_hash,
   model_ids |-> json_loads(r.model_ids),
   model_scores |-> json_loads(r.model_scores),
   benchmark_versions |-> json_loads(r.benchmark_versions),
   weights_used |-> json_loads(r.weights_used),
   extraction_source |-> r.extraction_source,
   phase |-> r.phase]

\* get_latest_snapshots: ORDER BY timestamp_utc DESC LIMIT limit
get_latest_snapshots(rows, limit) ==
  LET n == Len(rows)
      Pos(i) == 1 + Cardinality({ j \in 1..n :
                      \/ rows[j].timestamp_utc > rows[i].timestamp_utc
                      \/ rows[j].timestamp_utc = rows[i].timestamp_utc /\ j < i })
  IN  [p \in 1..Min(n, limit) |-> RowDict(rows[CHOOSE i \in 1..n : Pos(i) = p])]

\* DiffStatus
COMPARABLE == "comparable"
INCOMPARABLE_VERSION_MISMATCH == "incomparable_version_mismatch"
INCOMPARABLE_BENCHMARK_MISMATCH == "incomparable_benchmark_mismatch"
NO_PREVIOUS_SNAPSHOT == "no_previous_snapshot"

\* {bv.benchmark_id: bv for bv in benchmark_versions}: the last entry of an
\* id is the one kept
VersionsById(bvs) ==
  [b \in { bvs[i][1] : i \in 1..Len(bvs) } |->
     bvs[CHOOSE i \in 1..Len(bvs) :
           bvs[i][1] = b /\ \A j \in 1..Len(bvs) : bvs[j][1] = b => j <= i]]

\* SnapshotDiff(...); omitted fields take their defaults
SnapshotDiff(status, current_id, previous_id, score_deltas, version_mismatches) ==
  [status |-> status, current_snapshot_id |-> current_id,
   previous_snapshot_id |-> previous_id, score_deltas |-> score_deltas,
   version_mismatches |-> version_mismatches]

\* mutant: the deltas of every benchmark scored in both snapshots, listed in
\* benchmark_versions or not
ScoreDeltasOfAllScored(current, previous, common_benchmarks) ==
  LET common_models == ListAsSet(current.model_ids) \cap ListAsSet(previous.model_ids)
      Scored(s, m) == IF m \in KeySet(s.model_scores)
                        THEN KeySet(Item(s.model_scores, m)) ELSE {}
      Both(m) == Scored(current, m) \cap Scored(previous, m)
  IN  [m \in { k \in common_models : Both(k) # {} } |->
         [b \in Both(m) |-> Item(Item(current.model_scores, m), b)
                              - Item(Item(previous.model_scores, m), b)]]

\* score_deltas of comparable snapshots, as the mapping the dict stands for
ScoreDeltas(current, previous, common_benchmarks) ==
  LET common_models == ListAsSet(current.model_ids) \cap ListAsSet(previous.model_ids)
      Scored(s, m) == IF m \in KeySet(s.model_scores)
                        THEN KeySet(Item(s.model_scores, m)) ELSE {}
      Both(m) == { b \in common_benchmarks :
                     b \in Scored(current, m) /\ b \in Scored(previous, m) }
  IN  [m \in { k \in common_models : Both(k) # {} } |->
         [b \in Both(m) |-> Item(Item(current.model_scores, m), b)
                              - Item(Item(previous.model_scores, m), b)]]

\* score_deltas as SnapshotDiff leaves it by default: the empty dict
NoDeltas == [m \in {} |-> << >>]

\* mutant: the deltas of the shared benchmarks are computed whatever the
\* versions are
diff_snapshots_approximating(current, previous) ==
  IF previous = << >>
    THEN SnapshotDiff(NO_PREVIOUS_SNAPSHOT, current.snapshot_id, << >>, NoDeltas, {})
  ELSE
    LET prev == previous[1]
        current_versions == VersionsById(current.benchmark_versions)
        previous_versions == VersionsById(prev.benchmark_versions)
        common_benchmarks == DOMAIN current_versions \cap DOMAIN previous_versions
        version_mismatches ==
          { b \in common_benchmarks : current_versions[b][2] # previous_versions[b][2] }
    IN  SnapshotDiff(
          IF version_mismatches # {} THEN INCOMPARABLE_VERSION_MISMATCH
          ELSE IF DOMAIN current_versions # DOMAIN previous_versions
            THEN INCOMPARABLE_BENCHMARK_MISMATCH
          ELSE COMPARABLE,
          current.snapshot_id, prev.snapshot_id,
          ScoreDeltas(current, prev, common_benchmarks), version_mismatches)

\* mutant: the benchmark sets are compared before the versions
diff_snapshots_sets_first(current, previous) ==
  IF previous = << >>
    THEN SnapshotDiff(NO_PREVIOUS_SNAPSHOT, current.snapshot_id, << >>, NoDeltas, {})
  ELSE
    LET prev == previous[1]
        current_versions == VersionsById(current.benchmark_versions)
        previous_versions == VersionsById(prev.benchmark_versions)
        common_benchmarks == DOMAIN current_versions \cap DOMAIN previous_versions
        version_mismatches ==
          { b \in common_benchmarks : current_versions[b][2] # previous_versions[b][2] }
    IN  IF DOMAIN current_versions # DOMAIN previous_versions
          THEN SnapshotDiff(INCOMPARABLE_BENCHMARK_MISMATCH, current.snapshot_id,
                            prev.snapshot_id, NoDeltas, {})
        ELSE IF version_mismatches # {}
          THEN SnapshotDiff(INCOMPARABLE_VERSION_MISMATCH, current.snapshot_id,
                            prev.snapshot_id, NoDeltas, version_mismatches)
        ELSE SnapshotDiff(COMPARABLE, current.snapshot_id, prev.snapshot_id,
                          ScoreDeltas(current, prev, common_benchmarks), {})

\* diff_snapshots; previous is << >> for None, << snapshot >> otherwise
diff_snapshots(current, previous) ==
  IF previous = << >>
    THEN SnapshotDiff(NO_PREVIOUS_SNAPSHOT, current.snapshot_id, << >>, NoDeltas, {})
  ELSE
    LET prev == previous[1]
        current_versions == VersionsById(current.benchmark_versions)
        previous_versions == VersionsById(prev.benchmark_versions)
        common_benchmarks == DOMAIN current_versions \cap DOMAIN previous_versions
        version_mismatches ==
          { b \in common_benchmarks : current_versions[b][2] # previous_versions[b][2] }
    IN  IF version_mismatches # {}
          THEN SnapshotDiff(INCOMPARABLE_VERSION_MISMATCH, current.snapshot_id,
                            prev.snapshot_id, NoDeltas, version_mismatches)
        ELSE IF DOMAIN current_versions # DOMAIN previous_versions
          THEN SnapshotDiff(INCOMPARABLE_BENCHMARK_MISMATCH, current.snapshot_id,
                            prev.snapshot_id, NoDeltas, {})
        ELSE SnapshotDiff(COMPARABLE, current.snapshot_id, prev.snapshot_id,
                          ScoreDeltas(current, prev, common_benchmarks), {})

----------------------------------------------------------------------------
\* the caller holds nothing
NoHeld == Held("none", << >>, "none")

\* the inputs of the snapshots that go through the store
StoreArgs ==
  { a \in SnapshotArgs :
      /\ Keys(a.model_scores) = << "model_b", "model_a" >>
      /\ \A i \in 1..Len(a.model_scores) :
           Keys(a.model_scores[i][2]) = << "mmlu", "gsm8k" >>
      /\ Keys(a.benchmark_versions) = << "mmlu", "gsm8k" >> }

\* create_snapshot, the caller keeps the object
CreateHeld(a) ==
  /\ held' = Held("object",
                  create_snapshot(a.model_scores, a.benchmark_versions,
                                  a.weights_used, clock), "none")
  /\ UNCHANGED << analystVars, temporalVars, streamVars, sess, clock, snaps, store, call, result >>

\* held = held.to_dict()
ToDict ==
  /\ held.form = "object"
  /\ held' = Held("dict", to_dict(held.data), held.changed)
  /\ UNCHANGED << analystVars, temporalVars, streamVars, sess, clock, snaps, store, call, result >>

\* held = Snapshot.from_dict(held)
FromDict ==
  /\ held.form = "dict"
  /\ held' = Held("object", from_dict(held.data), held.changed)
  /\ UNCHANGED << analystVars, temporalVars, streamVars, sess, clock, snaps, store, call, result >>

\* mutant: the snapshots table without its PRIMARY KEY and UNIQUE constraints
SaveSnapshotUnchecked ==
  /\ held.form = "dict"
  /\ store' = Append(store, SnapshotRow(held.data))
  /\ result' = [fn |-> "save_snapshot", raised |-> "none"]
  /\ UNCHANGED << analystVars, temporalVars, streamVars, sess, clock, snaps, held, call >>

\* save_snapshot(conn, held): the INSERT, or the error of a violated
\* constraint (which one SQLite names when both are violated is left open)
SaveSnapshot ==
  /\ held.form = "dict"
  /\ LET r == SnapshotRow(held.data)
         broken == Violations(store, r)
     IN  IF broken = {}
           THEN /\ store' = Append(store, r)
                /\ result' = [fn |-> "save_snapshot", raised |-> "none"]
           ELSE /\ store' = store
                /\ \E c \in broken :
                     result' = [fn |-> "save_snapshot", raised |-> SaveError(c)]
  /\ UNCHANGED << analystVars, temporalVars, streamVars, sess, clock, snaps, held, call >>

\* held = get_snapshot(conn, id): the dict of the row, or None
GetSnapshot(id) ==
  /\ held' = IF \E i \in 1..Len(store) : store[i].snapshot_id = id
               THEN Held("dict",
                         RowDict(store[CHOOSE i \in 1..Len(store) :
                                         store[i].snapshot_id = id]), "none")
               ELSE NoHeld
  /\ UNCHANGED << analystVars, temporalVars, streamVars, sess, clock, snaps, store, call, result >>

\* diff_snapshots(held, previous), previous being the latest stored
\* snapshot, None when the table is empty
Diff ==
  /\ held.form = "object"
  /\ LET latest == get_latest_snapshots(store, 1)
         previous == [i \in 1..Len(latest) |-> from_dict(latest[i])]
     IN  result' = [fn |-> "diff_snapshots",
                    status |-> diff_snapshots(held.data, previous).status]
  /\ UNCHANGED << analystVars, temporalVars, streamVars, sess, clock, snaps, held, store, call >>

InitStore ==
  /\ StreamIdle /\ AnalystIdle /\ EngineIdle
  /\ clock = 0 /\ snaps = << >> /\ store = << >>
  /\ held = NoHeld
  /\ call = NoCall /\ result = NoCall

NextStore ==
  \/ Tick
  \/ \E a \in StoreArgs : CreateHeld(a)
  \/ ToDict
  \/ FromDict
  \/ SaveSnapshot
  \/ \E c \in 0..MaxClock : GetSnapshot(<< "snap", c >>)
  \/ Verify
  \/ Diff

SpecStore == InitStore /\ [][NextStore]_vars

\* C14: no field of a snapshot is assigned to in these runs; whatever was
\* done with it (verify, diff, to_dict and from_dict, save and load),
\* verify_snapshot returns True for the snapshot held, the dict form reports
\* integrity_verified, and every stored row read back verifies.
C14_VerifySoundness ==
  /\ result.fn = "verify_snapshot" => result.ok
  /\ held.form = "object" => verify_snapshot(held.data)
  /\ held.form = "dict" => verify_snapshot(from_dict(held.data))
  /\ \A i \in 1..Len(store) : verify_snapshot(from_dict(RowDict(store[i])))

\* a snapshot with weights that was saved, read back from the table, turned
\* into an object again and verified
C14_Witness ==
  /\ result.fn = "verify_snapshot" /\ result.ok
  /\ held.form = "object" /\ held.data.weights_used # << >>
  /\ \E i \in 1..Len(store) : held.data = from_dict(RowDict(store[i]))
  /\ Len(store) > 1

\* the step is a call of save_snapshot
SaveStep ==
  \/ store' # store
  \/ result' # result /\ result'.fn = "save_snapshot"

\* C17: save_snapshot of a snapshot whose content_hash is already stored
\* raises an error and leaves the table as it was; no step removes or
\* changes a stored row: the table only grows, by one row with a new
\* content_hash at a time.
C17_AppendOnly ==
  [][ /\ (/\ SaveStep
          /\ \E i \in 1..Len(store) : store[i].content_hash = held.data.content_hash)
           => (store' = store /\ result'.raised \in { "ValueError", "IntegrityError" })
      /\ Len(store') >= Len(store)
      /\ \A i \in 1..Len(store) : store'[i] = store[i]
      /\ store' # store =>
           /\ Len(store') = Len(store) + 1
           /\ \A i \in 1..Len(store) :
                store[i].content_hash # store'[Len(store')].content_hash ]_vars

\* a second save of a stored snapshot was rejected, the table has its rows
C17_Witness ==
  /\ result.fn = "save_snapshot" /\ result.raised = "ValueError"
  /\ held.form = "dict"
  /\ \E i \in 1..Len(store) : store[i] = SnapshotRow(held.data)
  /\ Len(store) > 1

----------------------------------------------------------------------------
\* the score matrices of the snapshots that are compared
DiffMatrices ==
  { m \in ScoreMatrices :
      /\ Keys(m) \in { << "model_a" >>, << "model_a", "model_b" >> }
      /\ \A i \in 1..Len(m) :
           /\ Keys(m[i][2]) \in { << "mmlu" >>, << "gsm8k", "mmlu" >> }
           /\ \A k \in 1..Len(m[i][2]) :
                (i = 2 \/ m[i][2][k][1] = "gsm8k") => m[i][2][k][2] = 70 }

\* the snapshots created at time now
SnapshotsAt(now) ==
  { create_snapshot(m, l, << >>, now) : m \in DiffMatrices, l \in BenchmarkVersionLists }

\* diff_snapshots(current, previous) for a current snapshot and an earlier
\* one, or None
InitDiff ==
  /\ StreamIdle /\ AnalystIdle /\ EngineIdle
  /\ clock = 1 /\ snaps = << >> /\ store = << >> /\ held = NoHeld
  /\ call \in [fn : { "diff_snapshots" },
               current : SnapshotsAt(1),
               previous : { << >> } \cup { << p >> : p \in SnapshotsAt(0) }]
  /\ result = NoCall

DiffCall ==
  /\ call.fn = "diff_snapshots" /\ result = NoCall
  /\ result' = [fn |-> "diff_snapshots",
                diff |-> diff_snapshots(call.current, call.previous)]
  /\ UNCHANGED << analystVars, temporalVars, streamVars, sess, clock, snaps, held, store, call >>

NextDiff == DiffCall

SpecDiff == InitDiff /\ [][NextDiff]_vars

\* the benchmark ids of a snapshot and the versions it lists for one of them
BenchmarksOf(s) == { s.benchmark_versions[i][1] : i \in 1..Len(s.benchmark_versions) }

VersionsOf(s, b) ==
  { s.benchmark_versions[i][2] :
      i \in { k \in 1..Len(s.benchmark_versions) : s.benchmark_versions[k][1] = b } }

VersionsDiffer(c, p) ==
  \E b \in BenchmarksOf(c) \cap BenchmarksOf(p) : VersionsOf(c, b) # VersionsOf(p, b)

\* C15: diff_snapshots returns one of the four statuses: no_previous_snapshot
\* exactly when previous is None; otherwise incomparable_version_mismatch
\* exactly when a benchmark_id of both snapshots has different versions;
\* otherwise incomparable_benchmark_mismatch exactly when the two sets of
\* benchmark_ids differ; otherwise comparable.
C15_DiffClassification ==
  result.fn = "diff_snapshots" =>
    LET status == result.diff.status
        c == call.current
    IN  /\ status \in { NO_PREVIOUS_SNAPSHOT, INCOMPARABLE_VERSION_MISMATCH,
                        INCOMPARABLE_BENCHMARK_MISMATCH, COMPARABLE }
        /\ status = NO_PREVIOUS_SNAPSHOT <=> call.previous = << >>
        /\ call.previous # << >> =>
             LET p == call.previous[1] IN
               /\ status = INCOMPARABLE_VERSION_MISMATCH <=> VersionsDiffer(c, p)
               /\ status = INCOMPARABLE_BENCHMARK_MISMATCH <=>
                    (~ VersionsDiffer(c, p) /\ BenchmarksOf(c) # BenchmarksOf(p))
               /\ status = COMPARABLE <=>
                    (~ VersionsDiffer(c, p) /\ BenchmarksOf(c) = BenchmarksOf(p))

\* a shared benchmark with different versions while the sets differ too:
\* the version mismatch is what is reported
C15_Witness ==
  /\ result.fn = "diff_snapshots"
  /\ result.diff.status = INCOMPARABLE_VERSION_MISMATCH
  /\ BenchmarksOf(call.current) # BenchmarksOf(call.previous[1])

\* C16: whenever the status is not comparable (no previous snapshot, a
\* version mismatch, a benchmark-set mismatch) score_deltas is empty.
C16_DiffRefuses ==
  (result.fn = "diff_snapshots" /\ result.diff.status # COMPARABLE) =>
    DOMAIN result.diff.score_deltas = {}

\* mmlu 2024-01 against mmlu 2024-02 with model_a scored on mmlu in both
\* snapshots: refused, no deltas
C16_Witness ==
  /\ result.fn = "diff_snapshots"
  /\ result.diff.status = INCOMPARABLE_VERSION_MISMATCH
  /\ BenchmarkVersion("mmlu", "2024-02") \in ListAsSet(call.current.benchmark_versions)
  /\ BenchmarkVersion("mmlu", "2024-01") \in ListAsSet(call.previous[1].benchmark_versions)
  /\ Item(Item(call.current.model_scores, "model_a"), "mmlu")
       # Item(Item(call.previous[1].model_scores, "model_a"), "mmlu")
  /\ DOMAIN result.diff.score_deltas = {}

(***************************************************************************)
(* Regression detector (phase2/regression.py)                              *)
(***************************************************************************)
\* RegressionSeverity
NONE == "none"
MINOR == "minor"
MAJOR == "major"

\* the benchmark ids scored: one of each category, one written in mixed
\* case, one that BENCHMARK_CATEGORIES does not list
RegBenchmarks == { "mmlu", "HumanEval", "lying_rate", "speed_tps", "custom" }

\* str.lower on these ids
LowerId(b) == IF b = "HumanEval" THEN "humaneval" ELSE b

\* BENCHMARK_CATEGORIES, the entries of the ids above
BENCHMARK_CATEGORIES ==
  [b \in { "mmlu", "gsm8k", "humaneval", "lying_rate", "speed_tps" } |->
     CASE b \in { "mmlu", "gsm8k" } -> "reasoning"
       [] b = "humaneval" -> "coding"
       [] b = "lying_rate" -> "safety"
       [] b = "speed_tps" -> "economics"]

get_benchmark_category(benchmark_id) ==
  IF LowerId(benchmark_id) \in DOMAIN BENCHMARK_CATEGORIES
    THEN BENCHMARK_CATEGORIES[LowerId(benchmark_id)]
    ELSE "general"

\* RegressionThresholds(minor_threshold_pct, major_threshold_pct) with the
\* default category_overrides
RegressionThresholds(minor, major) ==
  [minor_threshold_pct |-> minor, major_threshold_pct |-> major,
   category_overrides |->
     [c \in { "reasoning", "coding", "safety", "economics" } |->
        CASE c = "reasoning" -> [minor |-> 3, major |-> 7]
          [] c = "coding" -> [minor |-> 7, major |-> 15]
          [] c = "safety" -> [minor |-> 2, major |-> 5]
          [] c = "economics" -> [minor |-> 10, major |-> 20]]]

\* mutant: the category overrides are not looked at
get_thresholds_default_only(thresholds, category) ==
  << thresholds.minor_threshold_pct, thresholds.major_threshold_pct >>

\* RegressionThresholds.get_thresholds
get_thresholds(thresholds, category) ==
  IF category \in DOMAIN thresholds.category_overrides
    THEN << thresholds.category_overrides[category].minor,
            thresholds.category_overrides[category].major >>
    ELSE << thresholds.minor_threshold_pct, thresholds.major_threshold_pct >>

\* (delta_absolute / previous) * 100 as the exact fraction num/den, den > 0.
\* The scores are integers; on them the float result falls on the same side
\* of every threshold as the exact one.
Percentage(delta_absolute, previous) ==
  IF previous > 0 THEN << delta_absolute * 100, previous >>
                  ELSE << (0 - delta_absolute) * 100, 0 - previous >>

\* pct <= -thresh
AtMostMinus(pct, thresh) == pct[1] <= (0 - thresh) * pct[2]

\* the body of the loop of detect_regressions for one benchmark
RegressionEvent(benchmark_id, current, previous, thresholds) ==
  LET delta_absolute == current - previous
      delta_percentage == Percentage(delta_absolute, previous)
      category == get_benchmark_category(benchmark_id)
      th == get_thresholds(thresholds, category)
  IN  [benchmark_id |-> benchmark_id,
       benchmark_category |-> category,
       current_score |-> current,
       previous_score |-> previous,
       delta_absolute |-> delta_absolute,
       delta_percentage |-> delta_percentage,
       severity |-> IF AtMostMinus(delta_percentage, th[2]) THEN MAJOR
                    ELSE IF AtMostMinus(delta_percentage, th[1]) THEN MINOR
                    ELSE NONE,
       thresholds_used |-> [minor |-> th[1], major |-> th[2]]]

\* mutant: detect_regressions without the skip of a previous score of 0
detect_regressions_without_skip(current_scores, previous_scores, thresholds) ==
  LET common_benchmarks == DOMAIN current_scores \cap DOMAIN previous_scores
      events == { RegressionEvent(b, current_scores[b], previous_scores[b], thresholds) :
                    b \in common_benchmarks }
      minor_count == Cardinality({ e \in events : e.severity = MINOR })
      major_count == Cardinality({ e \in events : e.severity = MAJOR })
  IN  [total_benchmarks_analyzed |-> Cardinality(common_benchmarks),
       regressions_found |-> minor_count + major_count,
       minor_regressions |-> minor_count,
       major_regressions |-> major_count,
       events |-> events]

\* detect_regressions; the score dicts are taken as mappings (only their key
\* sets and values are used) and the list of events as the set of its items
detect_regressions(current_scores, previous_scores, thresholds) ==
  LET common_benchmarks == DOMAIN current_scores \cap DOMAIN previous_scores
      events == { RegressionEvent(b, current_scores[b], previous_scores[b], thresholds) :
                    b \in { k \in common_benchmarks : previous_scores[k] # 0 } }
      minor_count == Cardinality({ e \in events : e.severity = MINOR })
      major_count == Cardinality({ e \in events : e.severity = MAJOR })
  IN  [total_benchmarks_analyzed |-> Cardinality(common_benchmarks),
       regressions_found |-> minor_count + major_count,
       minor_regressions |-> minor_count,
       major_regressions |-> major_count,
       events |-> events]

\* the scores of the benchmark under analysis
CurrentScores == { 0, 68, 70, 76, 80, 85, 90, 93, 95, 97, 98, 100, 110 }

PreviousScores == { -100, 0, 80, 100 }

EmptyScores == [b \in {} |-> 0]

\* what a second benchmark of the two score sets may look like
OtherScores ==
  { [current |-> EmptyScores, previous |-> EmptyScores],
    [current |-> EmptyScores, previous |-> [b \in { "gsm8k" } |-> 80]],
    [current |-> [b \in { "gsm8k" } |-> 80], previous |-> [b \in { "gsm8k" } |-> 0]],
    [current |-> [b \in { "gsm8k" } |-> 70], previous |-> [b \in { "gsm8k" } |-> 80]] }

\* the thresholds passed: None (the defaults) or the caller's own values
ThresholdChoices ==
  { RegressionThresholds(5, 10), RegressionThresholds(2, 4), RegressionThresholds(0, 0) }

InitRegress ==
  /\ StreamIdle /\ AnalystIdle /\ EngineIdle
  /\ clock = 0 /\ snaps = << >> /\ store = << >> /\ held = NoHeld
  /\ \E b \in RegBenchmarks, c \in CurrentScores, p \in PreviousScores, o \in OtherScores,
        t \in ThresholdChoices :
       call = [fn |-> "detect_regressions",
               current_scores |-> (b :> c) @@ o.current,
               previous_scores |-> (b :> p) @@ o.previous,
               thresholds |-> t]
  /\ result = NoCall

DetectCall ==
  /\ call.fn = "detect_regressions" /\ result = NoCall
  /\ result' = [fn |-> "detect_regressions",
                report |-> detect_regressions(call.current_scores,
                                              call.previous_scores, call.thresholds)]
  /\ UNCHANGED << analystVars, temporalVars, streamVars, sess, clock, snaps, held, store, call >>

NextRegress == DetectCall

SpecRegress == InitRegress /\ [][NextRegress]_vars

\* the (minor, major) thresholds of a category as the claim lists them
ClaimedThresholds(category) ==
  CASE category = "reasoning" -> << 3, 7 >>
    [] category = "coding" -> << 7, 15 >>
    [] category = "safety" -> << 2, 5 >>
    [] category = "economics" -> << 10, 20 >>
    [] OTHER -> << 5, 10 >>

\* the events of a benchmark in the report
EventsOf(b) == { e \in result.report.events : e.benchmark_id = b }

C19_OnlyDecreasesRegress ==
  result.fn = "detect_regressions" =>
    \A e \in result.report.events :
      e.severity # NONE => e.current_score < e.previous_score

(***************************************************************************)
(* Reliability score engine (phase2/prs.py)                                *)
(***************************************************************************)
\* The floats of prs.py are computed exactly, as fractions << num, den >>
\* in lowest terms with den > 0.
RECURSIVE GCD(_, _)
GCD(a, b) == IF b = 0 THEN a ELSE GCD(b, a % b)

Abs(n) == IF n < 0 THEN 0 - n ELSE n

Q(n, d) ==
  LET g == GCD(Abs(n), Abs(d))
      s == IF d < 0 THEN 0 - 1 ELSE 1
  IN  << (s * n) \div g, (s * d) \div g >>

QAdd(a, b) == Q(a[1] * b[2] + b[1] * a[2], a[2] * b[2])

QSub(a, b) == Q(a[1] * b[2] - b[1] * a[2], a[2] * b[2])

QMul(a, b) == Q(a[1] * b[1], a[2] * b[2])

QDiv(a, b) == Q(a[1] * b[2], a[2] * b[1])

QLe(a, b) == a[1] * b[2] <= b[1] * a[2]

QMin(a, b) == IF QLe(a, b) THEN a ELSE b

QMax(a, b) == IF QLe(a, b) THEN b ELSE a

\* sum(qs) and sum(qs) / len(qs) of a list of fractions
RECURSIVE QSum(_)
QSum(qs) == IF qs = << >> THEN Q(0, 1) ELSE QAdd(Head(qs), QSum(Tail(qs)))

QMean(qs) == QDiv(QSum(qs), Q(Len(qs), 1))

RECURSIVE QPow(_, _)
QPow(q, n) == IF n = 0 THEN Q(1, 1) ELSE QMul(q, QPow(q, n - 1))

\* the items of a set, listed in some order
RECURSIVE ListOf(_)
ListOf(S) ==
  IF S = {} THEN << >>
  ELSE LET x == CHOOSE y \in S : TRUE IN << x >> \o ListOf(S \ { x })

WEIGHT_CAPABILITY_CONSISTENCY == Q(40, 100)
WEIGHT_BENCHMARK_STABILITY == Q(35, 100)
WEIGHT_TEMPORAL_RELIABILITY == Q(25, 100)
DEFAULT_STABILITY_WINDOW == 3
MISSING_DATA_PENALTY == Q(85, 100)

\* compute_capability_consistency: the score it returns; the score dicts
\* are taken as mappings
compute_capability_consistency(current_scores, all_model_scores) ==
  IF DOMAIN current_scores = {} THEN Q(0, 1)
  ELSE
    LET benchmark_scores(b) ==
          { all_model_scores[m][b] :
              m \in { k \in DOMAIN all_model_scores : b \in DOMAIN all_model_scores[k] } }
        min_score(b) == CHOOSE x \in benchmark_scores(b) :
                          \A y \in benchmark_scores(b) : x <= y
        max_score(b) == CHOOSE x \in benchmark_scores(b) :
                          \A y \in benchmark_scores(b) : x >= y
        normalized(b) ==
          IF max_score(b) = min_score(b)
            THEN IF current_scores[b] = max_score(b) THEN Q(1, 1) ELSE Q(0, 1)
            ELSE Q(current_scores[b] - min_score(b), max_score(b) - min_score(b))
        counted == ListOf({ b \in DOMAIN current_scores : benchmark_scores(b) # {} })
        normalized_scores == [i \in 1..Len(counted) |-> normalized(counted[i])]
    IN  IF normalized_scores = << >> THEN Q(0, 1)
        ELSE QMul(QMean(normalized_scores), Q(100, 1))

\* compute_benchmark_stability: the score it returns
compute_benchmark_stability(extraction_history, expected_benchmarks) ==
  IF extraction_history = << >> THEN Q(0, 1)
  ELSE
    LET history == SubSeq(extraction_history, 1,
                          Min(DEFAULT_STABILITY_WINDOW, Len(extraction_history)))
        extraction_count == Len(history)
        HasScore(e) == [b \in ListAsSet(expected_benchmarks) |-> b \in DOMAIN e]
        scores(b) ==
          LET with == SelectSeq(history, LAMBDA e : b \in DOMAIN e)
          IN  [i \in 1..Len(with) |-> Q(with[i][b], 1)]
        variance(ss) ==
          LET mean == QMean(ss)
          IN  QDiv(QSum([i \in 1..Len(ss) |->
                           QMul(QSub(ss[i], mean), QSub(ss[i], mean))]),
                   Q(Len(ss), 1))
        missing_benchmarks ==
          { b \in ListAsSet(expected_benchmarks) : Len(scores(b)) = 0 }
        measured == SelectSeq(expected_benchmarks, LAMBDA b : Len(scores(b)) >= 1)
        benchmark_variances ==
          [i \in 1..Len(measured) |->
             IF Len(scores(measured[i])) >= 2
               THEN QDiv(variance(scores(measured[i])), Q(2500, 1))
               ELSE Q(0, 1)]
    IN  IF benchmark_variances = << >> THEN Q(0, 1)
        ELSE
          LET aggregate_variance == QMean(benchmark_variances)
              raw_stability == QSub(Q(1, 1), QMin(Q(1, 1), aggregate_variance))
              penalty_factor == QPow(MISSING_DATA_PENALTY, Cardinality(missing_benchmarks))
              stability_with_penalty == QMul(raw_stability, penalty_factor)
              extraction_penalty == Q(extraction_count, DEFAULT_STABILITY_WINDOW)
              final_stability == QMul(stability_with_penalty, extraction_penalty)
          IN  QMul(final_stability, Q(100, 1))

\* the volatility penalty of one benchmark for a change of pct_change percent
VolatilityPenalty(pct_change) ==
  IF QLe(pct_change, Q(5, 1)) THEN Q(0, 1)
  ELSE IF QLe(pct_change, Q(20, 1))
    THEN QMul(QDiv(QSub(pct_change, Q(5, 1)), Q(15, 1)), Q(3, 10))
  ELSE QAdd(Q(3, 10),
            QMul(QDiv(QSub(QMin(pct_change, Q(50, 1)), Q(20, 1)), Q(30, 1)), Q(4, 10)))

\* compute_temporal_reliability without the first-extraction return: an absent
\* previous extraction is scored as an empty one
temporal_reliability_without_neutral(current_scores, previous_scores, current_benchmarks, previous_benchmarks) ==
  LET structure_penalty ==
        QMin(QMul(Q(Cardinality(current_benchmarks), 1), Q(10, 100)), Q(5, 10))
  IN  QMax(Q(0, 1), QMul(QSub(Q(1, 1), structure_penalty), Q(100, 1)))

\* compute_temporal_reliability; an Optional argument is << >> for None and
\* << value >> otherwise, a list of benchmark ids is taken as a set
compute_temporal_reliability(current_scores, previous_scores, current_benchmarks, previous_benchmarks) ==
  IF previous_scores = << >> \/ previous_benchmarks = << >> THEN Q(50, 1)
  ELSE
    LET prev == previous_scores[1]
        common == ListOf({ b \in DOMAIN current_scores \cap DOMAIN prev : prev[b] > 0 })
        penalties ==
          [i \in 1..Len(common) |->
             VolatilityPenalty(
               QMul(Q(Abs(current_scores[common[i]] - prev[common[i]]), prev[common[i]]),
                    Q(100, 1)))]
        appeared == current_benchmarks \ previous_benchmarks[1]
        disappeared == previous_benchmarks[1] \ current_benchmarks
        structure_penalty ==
          QMin(QMul(Q(Cardinality(appeared) + Cardinality(disappeared), 1), Q(10, 100)),
               Q(5, 10))
        volatility_penalty == IF penalties # << >> THEN QMean(penalties) ELSE Q(0, 1)
        total_penalty == QMin(QAdd(volatility_penalty, structure_penalty), Q(1, 1))
        reliability == QMul(QSub(Q(1, 1), total_penalty), Q(100, 1))
    IN  QMax(Q(0, 1), reliability)

\* compute_prs: the four scores of PRSComponents
compute_prs(current_scores, all_model_scores, extraction_history, expected_benchmarks, previous_scores, previous_benchmarks) ==
  LET capability_consistency ==
        compute_capability_consistency(current_scores, all_model_scores)
      benchmark_stability ==
        compute_benchmark_stability(extraction_history, expected_benchmarks)
      temporal_reliability ==
        compute_temporal_reliability(current_scores, previous_scores,
                                     DOMAIN current_scores, previous_benchmarks)
      final_prs ==
        QAdd(QAdd(QMul(WEIGHT_CAPABILITY_CONSISTENCY, capability_consistency),
                  QMul(WEIGHT_BENCHMARK_STABILITY, benchmark_stability)),
             QMul(WEIGHT_TEMPORAL_RELIABILITY, temporal_reliability))
  IN  [capability_consistency |-> capability_consistency,
       benchmark_stability |-> benchmark_stability,
       temporal_reliability |-> temporal_reliability,
       final_prs |-> QMax(Q(0, 1), QMin(Q(100, 1), final_prs))]

\* scores in [0, 100] of up to two benchmarks
PrsScores == { 0, 60, 100 }

ScoreMaps ==
  UNION { [B -> PrsScores] : B \in SUBSET BenchmarkIds }

\* the score matrix of the snapshot: one model or two
AllModelScores ==
  { [m \in { "model_a" } |-> s] : s \in { t \in ScoreMaps : DOMAIN t # {} } }
  \cup { [m \in Models |-> IF m = "model_a" THEN s ELSE [b \in { "mmlu" } |-> 60]] :
           s \in { t \in ScoreMaps : "mmlu" \in DOMAIN t } }

\* longest extraction history passed
MaxHistory == 4

\* the extraction histories, newest first
Histories ==
  UNION { [1..n -> { [b \in { "mmlu" } |-> 0],
                     [b \in BenchmarkIds |-> IF b = "mmlu" THEN 100 ELSE 60] }]
          : n \in 0..MaxHistory }

\* previous_scores and previous_benchmarks: None, or an earlier extraction
Previous ==
  { [scores |-> << >>, benchmarks |-> << >>],
    [scores |-> << [b \in { "mmlu" } |-> 60] >>, benchmarks |-> << >>],
    [scores |-> << >>, benchmarks |-> << { "mmlu" } >>] }
  \cup { [scores |-> << s >>, benchmarks |-> << DOMAIN s >>] :
           s \in { [b \in { "mmlu" } |-> 60],
                   [b \in BenchmarkIds |-> IF b = "mmlu" THEN 100 ELSE 0] } }

InitPrs ==
  /\ StreamIdle /\ AnalystIdle /\ EngineIdle
  /\ clock = 0 /\ snaps = << >> /\ store = << >> /\ held = NoHeld
  /\ \E cs \in ScoreMaps, ams \in AllModelScores, h \in Histories, p \in Previous,
        full \in BOOLEAN :
       call = [fn |-> "compute_prs",
               current_scores |-> cs,
               all_model_scores |-> ams,
               extraction_history |-> h,
               expected_benchmarks |->
                 IF full THEN << "gsm8k", "mmlu" >> ELSE ListOf(DOMAIN cs),
               previous_scores |-> p.scores,
               previous_benchmarks |-> p.benchmarks]
  /\ result = NoCall

PrsCall ==
  /\ call.fn = "compute_prs" /\ result = NoCall
  /\ result' = [fn |-> "compute_prs",
                prs |-> compute_prs(call.current_scores, call.all_model_scores,
                                    call.extraction_history, call.expected_benchmarks,
                                    call.previous_scores, call.previous_benchmarks)]
  /\ UNCHANGED << analystVars, temporalVars, streamVars, sess, clock, snaps, held, store, call >>

NextPrs == PrsCall

SpecPrs == InitPrs /\ [][NextPrs]_vars

InRange(q) == QLe(Q(0, 1), q) /\ QLe(q, Q(100, 1))

\* C20: for scores in [0, 100], capability_consistency, benchmark_stability,
\* temporal_reliability and final_prs all lie in [0, 100].
C20_PrsBounds ==
  result.fn = "compute_prs" =>
    /\ InRange(result.prs.capability_consistency)
    /\ InRange(result.prs.benchmark_stability)
    /\ InRange(result.prs.temporal_reliability)
    /\ InRange(result.prs.final_prs)

\* C21: with no previous extraction (previous_scores or previous_benchmarks
\* absent) compute_prs gives temporal_reliability exactly 50, whatever the
\* current scores are.
C21_PrsNeutrality ==
  (/\ result.fn = "compute_prs"
   /\ (call.previous_scores = << >> \/ call.previous_benchmarks = << >>))
    => result.prs.temporal_reliability = Q(50, 1)

C21_Witness ==
  /\ result.fn = "compute_prs"
  /\ call.previous_scores # << >> /\ call.previous_benchmarks = << >>
  /\ DOMAIN call.current_scores = BenchmarkIds
  /\ result.prs.temporal_reliability = Q(50, 1)

(***************************************************************************)
(* Parallel scouts of the analyst (phase2/mino_analyst.py)                 *)
(***************************************************************************)
ScoutNames == { "Scout A", "Scout B" }

\* longest list of scouts passed to _run_parallel_scouts
MaxScouts == 2

ScoutLists == UNION { [1..n -> ScoutNames] : n \in 0..MaxScouts }

\* what a call of _call_mino does: it returns a non-empty response, returns
\* None or an empty one, or raises
CallOutcomes == { "data", "empty", "raises" }

LogEvent(message) == [type |-> "log", message |-> message]

ErrorEvent(message) == [type |-> "error", message |-> message]

CompleteResults(data) == [type |-> "internal_complete", data |-> data]

\* the thread pool is created and every scout is submitted; an empty list
\* makes ThreadPoolExecutor(max_workers=0) raise ValueError
SquadStart(scouts) ==
  /\ squad_pc = "init"
  /\ IF Len(scouts) = 0
       THEN /\ squad_pc' = "raised"
            /\ UNCHANGED << scout, futures >>
       ELSE /\ squad_pc' = "drain"
            /\ scout' = [i \in 1..Len(scouts) |->
                           [name |-> scouts[i], pc |-> "submitted", response |-> "none"]]
            /\ futures' = [i \in 1..Len(scouts) |-> [done |-> FALSE, result |-> << >>]]
  /\ UNCHANGED << streamVars, sess, phase2Vars, squad_q, puts, squad_out,
                  report_pc, scout_results, report_out >>

Put(msg) ==
  /\ squad_q' = Append(squad_q, msg)
  /\ puts' = Append(puts, msg)

ScoutUnchanged ==
  UNCHANGED << streamVars, sess, phase2Vars, squad_pc, squad_out, report_pc,
               scout_results, report_out >>

\* run_scout: the start log
ScoutStart(i) ==
  /\ scout[i].pc = "submitted"
  /\ Put(LogEvent(<< scout[i].name, "Starting task" >>))
  /\ scout' = [scout EXCEPT ![i].pc = "calling"]
  /\ UNCHANGED futures
  /\ ScoutUnchanged

\* run_scout: self._call_mino(prompt, url=target_url)
ScoutCall(i) ==
  /\ scout[i].pc = "calling"
  /\ \E o \in CallOutcomes :
       scout' = [scout EXCEPT ![i].pc = "called", ![i].response = o]
  /\ UNCHANGED << squad_q, puts, futures >>
  /\ ScoutUnchanged

\* run_scout: the completion log, or the error message of the except branch
ScoutReport(i) ==
  /\ scout[i].pc = "called"
  /\ Put(IF scout[i].response = "raises"
           THEN ErrorEvent(<< scout[i].name, "Failed" >>)
           ELSE LogEvent(<< scout[i].name, "Task completed." >>))
  /\ scout' = [scout EXCEPT ![i].pc = "reported"]
  /\ UNCHANGED futures
  /\ ScoutUnchanged

\* run_scout returns and its future becomes done
ScoutReturn(i) ==
  /\ scout[i].pc = "reported"
  /\ futures' = [futures EXCEPT ![i] =
                   [done |-> TRUE,
                    result |-> IF scout[i].response = "raises"
                      THEN << [name |-> scout[i].name, error |-> "Failed"] >>
                      ELSE << [name |-> scout[i].name, data |-> scout[i].response] >>]]
  /\ scout' = [scout EXCEPT ![i].pc = "done"]
  /\ UNCHANGED << squad_q, puts >>
  /\ ScoutUnchanged

\* what the polling loop leaves alone; the caller of the generator handles
\* each yielded event before the loop goes on
PollUnchanged ==
  UNCHANGED << streamVars, sess, phase2Vars, puts, scout, futures, report_pc >>

SquadUnchanged == PollUnchanged /\ UNCHANGED << scout_results, report_out >>

\* the polling loop: msg = q.get_nowait(); yield msg
PollGet ==
  /\ squad_pc = "drain"
  /\ squad_q # << >>
  /\ squad_out' = Append(squad_out, Head(squad_q))
  /\ squad_q' = Tail(squad_q)
  /\ UNCHANGED squad_pc
  /\ PollUnchanged

SquadGet == PollGet /\ UNCHANGED << scout_results, report_out >>

\* the polling loop: q.get_nowait() raises queue.Empty
SquadEmpty ==
  /\ squad_pc = "drain"
  /\ squad_q = << >>
  /\ squad_pc' = "check"
  /\ UNCHANGED << squad_q, squad_out >>
  /\ SquadUnchanged

\* the polling loop: all(f.done() for f in futures), else sleep and poll again
SquadCheck ==
  /\ squad_pc = "check"
  /\ squad_pc' = IF \A i \in DOMAIN futures : futures[i].done
                   THEN "collect" ELSE "drain"
  /\ UNCHANGED << squad_q, squad_out >>
  /\ SquadUnchanged

\* results of the futures that hold a non-empty "data"
CollectResults ==
  LET res(i) == futures[i].result[1]
      ok == { i \in DOMAIN futures :
                "data" \in DOMAIN res(i) /\ res(i).data # "empty" }
  IN  [n \in { res(i).name : i \in ok } |-> "data"]

\* the results are collected and yielded as internal_complete
PollCollect ==
  /\ squad_pc = "collect"
  /\ squad_out' = Append(squad_out, CompleteResults(CollectResults))
  /\ squad_pc' = "end"
  /\ UNCHANGED squad_q
  /\ PollUnchanged

SquadCollect == PollCollect /\ UNCHANGED << scout_results, report_out >>

\* a step of a scout thread, or of the polling loop that yields nothing
ScoutStep ==
  \/ \E i \in DOMAIN scout :
       ScoutStart(i) \/ ScoutCall(i) \/ ScoutReport(i) \/ ScoutReturn(i)
  \/ SquadEmpty
  \/ SquadCheck

\* list(self._run_parallel_scouts(scouts)) for a list of scouts
InitSquad ==
  /\ StreamIdle /\ EngineIdle
  /\ clock = 0 /\ snaps = << >> /\ store = << >> /\ held = NoHeld
  /\ result = NoCall
  /\ \E s \in ScoutLists : call = [fn |-> "_run_parallel_scouts", scouts |-> s]
  /\ squad_q = << >> /\ puts = << >> /\ scout = << >> /\ futures = << >>
  /\ squad_pc = "init"
  /\ squad_out = << >>
  /\ report_pc = "idle" /\ scout_results = << >> /\ report_out = << >>

NextSquad ==
  \/ (call.fn = "_run_parallel_scouts" /\ SquadStart(call.scouts))
  \/ ScoutStep
  \/ SquadGet
  \/ SquadCollect

SpecSquad == InitSquad /\ [][NextSquad]_vars

\* how many times x occurs in the list s
Count(s, x) == Cardinality({ i \in 1..Len(s) : s[i] = x })

\* C22: a finished run of _run_parallel_scouts has yielded every message a
\* scout put on the queue, then exactly one internal_complete event as its
\* last event, with an entry for every scout that returned a non-empty
\* response; no run ends otherwise.
C22_ScoutsDeliverEverything ==
  /\ squad_pc # "raised"
  /\ squad_pc = "end" =>
       /\ \A i \in 1..Len(puts) : Count(squad_out, puts[i]) = Count(puts, puts[i])
       /\ Len(squad_out) = Len(puts) + 1
       /\ squad_out[Len(squad_out)].type = "internal_complete"
       /\ \A i \in DOMAIN scout :
            scout[i].response = "data" =>
              scout[i].name \in DOMAIN squad_out[Len(squad_out)].data

(***************************************************************************)
(* The benchmark report stream (generate_benchmark_report_stream)          *)
(***************************************************************************)
\* model names whose modality defines three scouts or two; the text
\* modality runs the same code with four
ReportModels == { "FLUX.1", "Sora", "Video Diffusion" }

\* the keywords of the modality heuristic that model_name.lower() contains
KeywordsIn(model_name) ==
  CASE model_name = "FLUX.1" -> { "flux" }
    [] model_name = "Sora" -> { "sora" }
    [] model_name = "Video Diffusion" -> { "video", "diffusion" }
    [] OTHER -> {}

Modality(model_name) ==
  IF KeywordsIn(model_name)
       \cap { "diffusion", "dall-e", "midjourney", "flux", "imagen", "firefly" } # {}
    THEN "image"
  ELSE IF KeywordsIn(model_name) \cap { "sora", "runway", "pika", "video" } # {}
    THEN "video"
  ELSE IF KeywordsIn(model_name)
            \cap { "tts", "voice", "audio", "speech", "elevenlabs" } # {}
    THEN "voice"
  ELSE "text"

\* the names of the scouts defined for a modality
ScoutsFor(modality) ==
  CASE modality = "image" ->
         << "Image Quality Scout", "Speed/Memory Scout", "Community Scout" >>
    [] modality = "text" ->
         << "Leaderboard Scout", "Academic Scout", "Coding Scout", "Wildcard Scout" >>
    [] OTHER -> << "Tech Scout", "Review Scout" >>

\* the final response of the aggregator call: JSON text, other text, an
\* empty response, or the call raises
AggregatorOutcomes == { "json", "text", "empty", "raises" }

ResultEvent(data) == [type |-> "result", data |-> data]

ReportUnchanged == UNCHANGED << streamVars, sess, phase2Vars, puts, scout, futures >>

\* the three opening logs; the scouts are defined and handed to
\* _run_parallel_scouts
ReportOpen ==
  /\ report_pc = "start"
  /\ report_out' = << LogEvent("Initializing Parallel Squad Protocol"),
                      LogEvent("Spawning 4 concurrent agent processes..."),
                      LogEvent(<< "Detected Model Modality", Modality(call.model_name) >>) >>
  /\ report_pc' = "scouts"
  /\ squad_pc' = "init"
  /\ UNCHANGED << squad_q, squad_out, scout_results >>
  /\ ReportUnchanged

\* an event of the scouts: a log is passed on, an error becomes a warning log
ReportGet ==
  /\ report_pc = "scouts"
  /\ PollGet
  /\ report_out' = Append(report_out,
                     IF Head(squad_q).type = "log" THEN Head(squad_q)
                     ELSE LogEvent(<< "Warning", Head(squad_q).message >>))
  /\ UNCHANGED scout_results

\* internal_complete: scout_results = event.get("data", {})
ReportCollect ==
  /\ report_pc = "scouts"
  /\ PollCollect
  /\ scout_results' = CollectResults
  /\ UNCHANGED report_out

\* the scouts delivered reports: results_text is built, two logs follow
ReportAggregating ==
  /\ report_pc = "scouts" /\ squad_pc = "end"
  /\ DOMAIN scout_results # {}
  /\ report_out' = report_out
                     \o << LogEvent("All agents reported in. Aggregating final intelligence..."),
                           LogEvent("Aggregating intelligence from all scouts...") >>
  /\ report_pc' = "aggregator"
  /\ UNCHANGED << squad_q, squad_pc, squad_out, scout_results >>
  /\ ReportUnchanged

\* no scout delivered anything: the fallback report is the result
ReportFallback ==
  /\ report_pc = "scouts" /\ squad_pc = "end"
  /\ DOMAIN scout_results = {}
  /\ report_out' = report_out
                     \o << LogEvent("Agents failed to retrieve data. Using fallback."),
                           ResultEvent("fallback") >>
  /\ report_pc' = "end"
  /\ UNCHANGED << squad_q, squad_pc, squad_out, scout_results >>
  /\ ReportUnchanged

\* final_response = self._call_mino(aggregator_prompt), outside any try
ReportAggregator ==
  /\ report_pc = "aggregator"
  /\ \E o \in AggregatorOutcomes :
       CASE o = "json" ->
              /\ report_out' = Append(report_out, ResultEvent("final_data"))
              /\ report_pc' = "end"
         [] o = "text" ->
              /\ report_out' = Append(report_out, ErrorEvent("Aggregation failed"))
              /\ report_pc' = "end"
         [] o = "empty" ->
              /\ report_out' = Append(report_out, ErrorEvent("Aggregator returned empty response."))
              /\ report_pc' = "end"
         [] OTHER ->
              /\ report_pc' = "raised"
              /\ UNCHANGED report_out
  /\ UNCHANGED << squad_q, squad_pc, squad_out, scout_results >>
  /\ ReportUnchanged

InitReport ==
  /\ StreamIdle /\ EngineIdle
  /\ clock = 0 /\ snaps = << >> /\ store = << >> /\ held = NoHeld
  /\ result = NoCall
  /\ \E m \in ReportModels :
       call = [fn |-> "generate_benchmark_report_stream", model_name |-> m]
  /\ squad_q = << >> /\ puts = << >> /\ scout = << >> /\ futures = << >>
  /\ squad_pc = "idle"
  /\ squad_out = << >>
  /\ report_pc = "start" /\ scout_results = << >> /\ report_out = << >>

NextReport ==
  \/ ReportOpen
  \/ (report_pc = "scouts" /\ SquadStart(ScoutsFor(Modality(call.model_name))))
  \/ ScoutStep
  \/ ReportGet
  \/ ReportCollect
  \/ ReportAggregating
  \/ ReportFallback
  \/ ReportAggregator

SpecReport == InitReport /\ [][NextReport]_vars

Terminal(e) == e.type \in { "result", "error" }

\* C23: every run of generate_benchmark_report_stream has yielded at least
\* one log event and ends with exactly one terminal event (result or error)
\* as its last event.
C23_ReportStreamShape ==
  report_pc \in { "end", "raised" } =>
    /\ \E i \in 1..Len(report_out) : report_out[i].type = "log"
    /\ Terminal(report_out[Len(report_out)])
    /\ Cardinality({ i \in 1..Len(report_out) : Terminal(report_out[i]) }) = 1

----------------------------------------------------------------------------
\* the (model, benchmark) pairs of a mapping of mappings
PairsOf(d) == { << m, b >> : m \in DOMAIN d, b \in BenchmarkIds } \cap
              { pr \in Models \X BenchmarkIds : pr[2] \in DOMAIN d[pr[1]] }

\* the pairs scored in both snapshots by a model that is in both
ScoredInBoth(c, p) ==
  { pr \in (ListAsSet(c.model_ids) \cap ListAsSet(p.model_ids)) \X BenchmarkIds :
      /\ pr[1] \in KeySet(c.model_scores) /\ pr[1] \in KeySet(p.model_scores)
      /\ pr[2] \in KeySet(Item(c.model_scores, pr[1]))
      /\ pr[2] \in KeySet(Item(p.model_scores, pr[1])) }

DeltasAre(pairs) ==
  /\ PairsOf(result.diff.score_deltas) = pairs
  /\ \A pr \in pairs :
       result.diff.score_deltas[pr[1]][pr[2]]
         = Item(Item(call.current.model_scores, pr[1]), pr[2])
           - Item(Item(call.previous[1].model_scores, pr[1]), pr[2])

\* C24 as stated: a comparable diff holds a delta for exactly the pairs whose
\* model is in both snapshots and scored on the benchmark in both, each
\* delta being current minus previous.
C24_EveryScoredPair ==
  (result.fn = "diff_snapshots" /\ result.diff.status = COMPARABLE) =>
    DeltasAre(ScoredInBoth(call.current, call.previous[1]))

\* C24: a comparable diff holds a delta for exactly the pairs whose model is
\* in both snapshots, whose benchmark is listed in the benchmark versions of
\* both, and which are scored in both; each delta is current minus previous.
C24_ComparableDeltas ==
  (result.fn = "diff_snapshots" /\ result.diff.status = COMPARABLE) =>
    DeltasAre({ pr \in ScoredInBoth(call.current, call.previous[1]) :
                  pr[2] \in BenchmarksOf(call.current) \cap BenchmarksOf(call.previous[1]) })

\* model_a dropped from 80 to 70 on mmlu, model_b is only in the current snapshot
C24_Witness ==
  /\ result.fn = "diff_snapshots" /\ result.diff.status = COMPARABLE
  /\ "model_b" \in ListAsSet(call.current.model_ids)
  /\ "model_b" \notin ListAsSet(call.previous[1].model_ids)
  /\ DOMAIN result.diff.score_deltas = { "model_a" }
  /\ result.diff.score_deltas["model_a"]["mmlu"] = 0 - 10

----------------------------------------------------------------------------
\* the benchmarks of both score sets whose previous score is 0
ZeroBaseline == { b \in DOMAIN call.current_scores \cap DOMAIN call.previous_scores :
                    call.previous_scores[b] = 0 }

\* a score set without the benchmarks of S
Without(scores, S) == [b \in DOMAIN scores \ S |-> scores[b]]

\* C25: a benchmark whose previous score is exactly 0 has no event and is
\* counted in neither minor nor major regressions, whatever its current
\* score; the events and counts are those of the same detection without it.
C25_ZeroBaselineSkipped ==
  result.fn = "detect_regressions" =>
    LET others == detect_regressions(Without(call.current_scores, ZeroBaseline),
                                     Without(call.previous_scores, ZeroBaseline),
                                     call.thresholds)
        Severe(sev) == { e.benchmark_id : e \in { x \in result.report.events : x.severity = sev } }
    IN  /\ \A b \in ZeroBaseline : EventsOf(b) = {}
        /\ result.report.minor_regressions = Cardinality(Severe(MINOR) \ ZeroBaseline)
        /\ result.report.major_regressions = Cardinality(Severe(MAJOR) \ ZeroBaseline)
        /\ result.report.regressions_found
             = result.report.minor_regressions + result.report.major_regressions
        /\ result.report.events = others.events
        /\ result.report.minor_regressions = others.minor_regressions
        /\ result.report.major_regressions = others.major_regressions

\* mmlu has a previous score of 0 and is skipped; gsm8k 80 -> 70 is reported
C25_Witness ==
  /\ result.fn = "detect_regressions"
  /\ "mmlu" \in ZeroBaseline /\ call.current_scores["mmlu"] = 80
  /\ "gsm8k" \notin ZeroBaseline
  /\ \E e \in EventsOf("gsm8k") : e.severity = MAJOR
  /\ EventsOf("mmlu") = {}
  /\ result.report.major_regressions = 1 /\ result.report.minor_regressions = 0

----------------------------------------------------------------------------
\* C26: whatever an extraction task saved to the cache is the output of the
\* normalisation step, and so is the data of every result event it produced
\* (or the cached row it was served from); a raw agent payload is neither
\* saved nor emitted as a result.
C26_OnlyNormalizedResults ==
  \A u \in AllUnits :
    /\ future[u].saved \in { "none", "norm" }
    /\ \A i \in 1..Len(future[u].events) :
         future[u].events[i].type = "result" =>
           future[u].events[i].data \in { "norm", "cached" }

(***************************************************************************)
(* Temporal diff engine (phase2/temporal.py)                               *)
(***************************************************************************)
SUCCESS == "success"

FAILURE == "failure"

PARTIAL == "partial"

\* record_extraction calls made on one engine
MaxRecords == 3

\* the records passed to record_extraction; extraction_id is the caller's
ExtractionRecords ==
  [extraction_id : { "e1", "e2", "e3" },
   model_id : { "model_a" },
   benchmark_id : { "mmlu" },
   benchmark_version : Versions,
   status : { SUCCESS, FAILURE, PARTIAL },
   scores : { [m \in { "accuracy" } |-> 70], [m \in { "accuracy" } |-> 80] }]

KeyOf(record) == << record.model_id, record.benchmark_id, record.benchmark_version >>

\* self._history.get(model_id, {}).get(benchmark_id, {}).get(version, [])
HistoryOf(h, key) == IF key \in DOMAIN h THEN h[key] ELSE << >>

\* record_extraction: insert at the beginning of the list of the record's key
record_extraction(h, record) ==
  [k \in DOMAIN h \cup { KeyOf(record) } |->
     IF k = KeyOf(record) THEN << record >> \o HistoryOf(h, k) ELSE h[k]]

\* the first position of a list that satisfies Test, 0 if there is none
FirstIndex(l, Test(_, _)) ==
  IF \E i \in 1..Len(l) : Test(l, i)
    THEN CHOOSE i \in 1..Len(l) : Test(l, i) /\ \A j \in 1..(i - 1) : ~ Test(l, j)
    ELSE 0

TemporalPair(current, previous, is_comparable, metric_deltas) ==
  [raised |-> FALSE, current |-> current, previous |-> previous,
   is_comparable |-> is_comparable, metric_deltas |-> metric_deltas]

\* get_temporal_pair: raised stands for the ValueError; previous is << >>
\* for None
get_temporal_pair(h, key) ==
  LET hist == HistoryOf(h, key)
      IsSuccess(l, i) == l[i].status = SUCCESS
      c == FirstIndex(hist, IsSuccess)
  IN  IF c = 0 THEN [raised |-> TRUE]
      ELSE
        LET current == hist[c]
            \* found_current is set at the first record with current's id
            f == CHOOSE i \in 1..Len(hist) :
                   /\ hist[i].extraction_id = current.extraction_id
                   /\ \A j \in 1..(i - 1) : hist[j].extraction_id # current.extraction_id
            IsPrevious(l, i) ==
              /\ i > f
              /\ l[i].extraction_id # current.extraction_id
              /\ l[i].status = SUCCESS
            p == FirstIndex(hist, IsPrevious)
        IN  IF p = 0 THEN TemporalPair(current, << >>, FALSE, << >>)
            ELSE IF current.benchmark_version # hist[p].benchmark_version
              THEN TemporalPair(current, << hist[p] >>, FALSE, << >>)
            ELSE TemporalPair(current, << hist[p] >>, TRUE,
                              [m \in DOMAIN current.scores \cap DOMAIN hist[p].scores |->
                                 current.scores[m] - hist[p].scores[m]])

RecordExtraction(record) ==
  /\ Len(recorded) < MaxRecords
  /\ engine_history' = record_extraction(engine_history, record)
  /\ recorded' = Append(recorded, record)
  /\ call' = NoCall /\ result' = NoCall
  /\ UNCHANGED << analystVars, streamVars, sess, clock, snaps, held, store >>

GetTemporalPair(key) ==
  /\ result = NoCall
  /\ call' = [fn |-> "get_temporal_pair", key |-> key]
  /\ result' = [fn |-> "get_temporal_pair", pair |-> get_temporal_pair(engine_history, key)]
  /\ UNCHANGED << analystVars, temporalVars, streamVars, sess, clock, snaps, held, store >>

InitTemporal ==
  /\ StreamIdle /\ AnalystIdle /\ EngineIdle
  /\ clock = 0 /\ snaps = << >> /\ store = << >> /\ held = NoHeld
  /\ call = NoCall /\ result = NoCall

NextTemporal ==
  \/ (Len(recorded) < MaxRecords /\ \E r \in ExtractionRecords : RecordExtraction(r))
  \/ \E v \in Versions : GetTemporalPair(<< "model_a", "mmlu", v >>)

SpecTemporal == InitTemporal /\ [][NextTemporal]_vars

\* the successful records of a key, most recently recorded first
RECURSIVE SuccessesOf(_, _)
SuccessesOf(log, key) ==
  IF log = << >> THEN << >>
  ELSE LET last == log[Len(log)]
           rest == SuccessesOf(SubSeq(log, 1, Len(log) - 1), key)
       IN  IF KeyOf(last) = key /\ last.status = SUCCESS THEN << last >> \o rest ELSE rest

\* C27: get_temporal_pair takes as current the most recently recorded
\* successful extraction of the (model, benchmark, version) asked for and as
\* previous the next most recently recorded successful one of the same
\* version; it is comparable only if there is such a previous, never pairs
\* two versions, and raises when there is no successful extraction.
C27_VersionGuardedPair ==
  result.fn = "get_temporal_pair" =>
    LET ok == SuccessesOf(recorded, call.key)
        pair == result.pair
    IN  IF ok = << >> THEN pair.raised
        ELSE /\ ~ pair.raised
             /\ pair.current = ok[1]
             /\ pair.previous = (IF Len(ok) >= 2 THEN << ok[2] >> ELSE << >>)
             /\ pair.is_comparable = (Len(ok) >= 2)
             /\ pair.previous # << >> =>
                  pair.previous[1].benchmark_version = pair.current.benchmark_version


----------------------------------------------------------------------------
\* Reloading stored records: a record as get_snapshot returns it, with what
\* may have happened to it in the table since it was written.

\* the hash of another snapshot
OtherHash(a) ==
  compute_hash(create_snapshot(a.model_scores, a.benchmark_versions, a.weights_used, 1))

\* the record of a snapshot, and the same record with its content_hash
\* replaced, emptied or dropped, or its timestamp rewritten
StoredRecords(a) ==
  LET s == create_snapshot(a.model_scores, a.benchmark_versions, a.weights_used, 0)
      d == RowDict(SnapshotRow(to_dict(s)))
      e == [d EXCEPT !.timestamp_utc = 1]
      Drop(x) == [k \in DOMAIN x \ {"content_hash"} |-> x[k]]
  IN  { d, e,
        [d EXCEPT !.content_hash = OtherHash(a)],
        [d EXCEPT !.content_hash = NoHash], [e EXCEPT !.content_hash = NoHash],
        Drop(d), Drop(e) }

\* the hash of the fields of a stored record other than content_hash
HashOfOtherFields(d) == compute_hash(from_dict(d))

InitReload ==
  /\ StreamIdle /\ AnalystIdle /\ EngineIdle
  /\ clock = 0 /\ snaps = << >> /\ store = << >>
  /\ result = NoCall
  /\ \E a \in HeldArgs : \E d \in StoredRecords(a) :
       /\ call = [fn |-> "from_dict", data |-> d]
       /\ held = Held("dict", d, "none")

NextReload == FromDict \/ Verify

SpecReload == InitReload /\ [][NextReload]_vars

\* C28: a Snapshot reconstructed from a stored record carries the stored
\* content_hash, and verify_snapshot returns False on it whenever the stored
\* content_hash, an empty or missing one included, is not the hash of the
\* record's other fields.
C28_NeverSilentlyCorrected ==
  (call.fn = "from_dict" /\ held.form = "object") =>
    LET stored == DictGet(call.data, "content_hash", NoHash)
    IN  /\ held.data.content_hash = stored
        /\ (result.fn = "verify_snapshot" /\ stored # HashOfOtherFields(call.data))
             => ~ result.ok


----------------------------------------------------------------------------
\* the positions in what the dispatcher yielded that hold an event of unit u
PositionsOf(u) ==
  { i \in 1..Len(yielded) :
      /\ yielded[i].source = u[1]
      /\ request.route = "compare" => yielded[i].model = u[2] }

\* what the unit produced, as the dispatcher hands it on: the events of the
\* list it returned, or the one error event standing for a unit that raised
Produced(u) ==
  IF future[u].raised
    THEN << TagModel(request, u, Event(u[1], "error", "failed", "none")) >>
    ELSE [i \in 1..Len(future[u].events) |-> TagModel(request, u, future[u].events[i])]

\* C29: the dispatcher yields no event of a unit that has not finished; the
\* events of one unit lie next to each other in the output, in the order the
\* unit produced them, and all of them are there once the dispatcher has
\* yielded `complete`.
C29_BatchForwarding ==
  \A u \in Tasks(request) :
    /\ ustate[u] \in {"none", "queued", "running"} => PositionsOf(u) = {}
    /\ \A i, k \in PositionsOf(u) : \A j \in i..k : j \in PositionsOf(u)
    /\ Len(UnitEvents(u)) <= Len(Produced(u))
    /\ \A i \in 1..Len(UnitEvents(u)) : UnitEvents(u)[i] = Produced(u)[i]
    /\ gpc = "end" => UnitEvents(u) = Produced(u)

\* the blocks of two units that each produced several events were yielded,
\* and a third unit raised
C29_Witness ==
  /\ gpc = "end"
  /\ \E u, v \in Tasks(request) :
       /\ u # v
       /\ ~ future[u].raised /\ Len(UnitEvents(u)) >= 2
       /\ ~ future[v].raised /\ Len(UnitEvents(v)) >= 2
  /\ \E w \in Tasks(request) : future[w].raised


----------------------------------------------------------------------------
\* the sessions whose producer thread was started and has not ended
RunningProducers == { s \in Sessions : sess[s].producer \in {"running", "closing"} }

\* C30: at every moment at most MAX_SSE_CONNECTIONS producer threads of
\* sse_stream_with_keepalive are still running, also after sessions were
\* closed by a client disconnect or an early close of the stream.
C30_BoundedBackgroundWork == Cardinality(RunningProducers) <= MAX_SSE_CONNECTIONS

=============================================================================
